---- MODULE Spec2Model ----
(***************************************************************************)
(* Geo-entity graph (Node / Way / Area and their collectors) and the       *)
(* GeoJSON feature-merge engine (ParceGeojson).                            *)
(*                                                                         *)
(* Each subsystem has its own specification over its own variables; the    *)
(* variables of the other subsystems stay at their initial values.         *)
(*   SpecNeighbors  Node.add_neighbor / remove_neighbor / clear_neighbors  *)
(*   SpecWay        Way.__init__ / add_node / remove_node / clear_nodes    *)
(*   SpecRegistry   NodeCollector / WayCollector / AreaCollector           *)
(*   SpecArea       Area.__init__ and the border operations                *)
(*   SpecChain      ParceGeojson.concat_coastline_sea                      *)
(*   SpecConcat     ParceGeojson.concat_geojson_features                   *)
(*   SpecDedup      ParceGeojson.remove_duplicate_features                 *)
(***************************************************************************)
EXTENDS Integers, Sequences, FiniteSets, TLC

VARIABLES
    neighbors,   \* Node._neighbors : node id -> list of node ids
    nbLast,      \* the last neighbor call and what it returned
    nodeWays,    \* Node._ways      : node id -> list of way ids
    wayMade,     \* the Way objects constructed so far
    wayNodes,    \* Way._nodes      : way id -> list of node ids
    wayBBox,     \* Way._min_lat, _max_lat, _min_lon, _max_lon
    wayLast,     \* the last Way call and what it returned
    nodeAreas,   \* Node._areas     : node id -> list of area ids
    areaMade,    \* the Area objects constructed so far
    areaOuter,   \* Area._outer_border  : area id -> list of node ids
    areaInner,   \* Area._inner_borders : area id -> list of lists of node ids
    areaBBox,    \* Area._min_lon, _max_lon, _min_lat, _max_lat
    areaLast,    \* the last Area call and what it returned
    nodeReg,     \* NodeCollector._nodes (its keys)
    wayReg,      \* WayCollector._ways (its keys)
    areaReg,     \* AreaCollector._areas (its keys)
    regOps,      \* calls made so far in a registry scenario
    regLast,     \* the last collector call and what it returned
    chainGiven,  \* concat_coastline_sea: the features as they are at the call
    chainInput,  \* concat_coastline_sea: feature_collection.features
    chainStart,  \* concat_coastline_sea: ind_start_line
    dictLine,    \* concat_coastline_sea: dict_line (insertion ordered)
    resultLine,  \* concat_coastline_sea: result_line (coordinates)
    resultLineIds, \* concat_coastline_sea: result_line_ids
    chainPc,     \* "start", "scan", "done" or "error"
    chainOut,    \* the features of the returned collection
    catInput,    \* concat_geojson_features: the features of all collections, in order
    catRewrite,  \* concat_geojson_features: rewrite_duplicates
    catAdding,   \* concat_geojson_features: adding_duplicates
    catIdx,      \* position of the feature being processed
    dictWays,    \* dict_ways_collectors
    dictAreas,   \* dict_areas_collectors
    newKey,      \* new_key inside the re-keying while loop
    catPc,       \* "loop", "rekey_way", "rekey_area", "done" or "error"
    catOut,      \* the features of the returned collection
    ddInput,     \* remove_duplicate_features: feature_collection.features
    ddIdx,       \* position in the current loop
    ddUnique,    \* unique_features
    ddResult,    \* result_feature_collections.features
    ddFalse,     \* false_features.features
    ddFile,      \* the content written to false_features.geojson, or None
    ddPc,        \* "canon", "build", "write", "done" or "error"
    srcGiven,    \* the store as it was passed to write_geojson
    srcNodes,    \* nodes_collector.nodes : the ids registered
    srcWays,     \* ways_collector.ways   : way id -> list of node ids
    srcAreas,    \* areas_collector.areas : area id -> outer and inner borders
    srcPrint,    \* list_print_points
    ioFile,      \* the features of the GeoJSON file
    ioIdx,       \* read_geojson: position of the feature being read
    ioPc,        \* "write", "read", "done" or "error"
    rdHeap,      \* read_geojson: the Node objects created, in creation order
    rdNodeReg,   \* read_geojson: node_collector.nodes : id -> Node object
    rdWays,      \* read_geojson: way_collector.ways
    rdAreas,     \* read_geojson: area_collector.areas
    prInput,     \* remove_duplicate_line / remove_feature_in_inner_boards: the features
    prCovers,    \* the geometry predicate covers, as a relation on geometries
    prContains,  \* the geometry predicate contains, as a relation on geometries
    prPc,        \* "line" or "inner" (the pass to run), "done"
    prOut,       \* the features of the returned collection
    gridRect,    \* split_to_grid: the rectangle feature, [x, y, w, h]
    gridCell,    \* split_to_grid: cell_size
    gridX,       \* split_to_grid: index of x in x_coords[:-1]
    gridY,       \* split_to_grid: index of y in y_coords[:-1]
    gridOut,     \* split_to_grid: feature_collection.features
    gridPc,      \* "cells", "done"
    ndMade,      \* Node: whether the constructor has returned an object
    ndLat,       \* Node._lat, None while the attribute is not set
    ndLon,       \* Node._lon, None while the attribute is not set
    ndLast,      \* the last call on the node, its arguments and its outcome
    lcObjs,      \* collectors: the Way and Area objects built so far
    lcNodeWays,  \* collectors: Node._ways, as indices into lcObjs
    lcWays,      \* WayCollector._ways: id -> index into lcObjs
    lcAreas,     \* AreaCollector._areas: id -> index into lcObjs
    lcLive,      \* the way ids inserted and not removed since
    lcLast,      \* the last collector call, its arguments and its outcome
    frFile,      \* fast_read_json: data.features
    frIdx,       \* fast_read_json: position in data.features
    frNodes,     \* fast_read_json: node_collector.nodes
    frWays,      \* fast_read_json: way_collector.ways
    frAreas,     \* fast_read_json: area_collector.areas
    frPc,        \* "read", "done"
    nwWayNodes,  \* neighbor ways: Way._nodes of every way
    nwNodeWays,  \* neighbor ways: Node._ways of every node
    nwMap,       \* neighbor ways: Way._neighbor_ways of every way
    nwLast,      \* the way set_neighbor_way was last called on, 0 before
    ciNodes,     \* clear_isolated_nodes: NodeCollector._nodes (its keys)
    ciNeighbors, \* clear_isolated_nodes: Node._neighbors of every node
    ciWays,      \* clear_isolated_nodes: Node._ways of every node
    ciBefore,    \* the keys of _nodes when the last call started
    ciLast,      \* the flags of the last clear_isolated_nodes call
    gridProps0,  \* split_to_grid: feature.properties when the call starts
    gridProps,   \* split_to_grid: feature.properties now
    gridTags     \* split_to_grid: the local dictionary tags

nbVars == <<neighbors, nbLast>>
wayVars == <<nodeWays, wayMade, wayNodes, wayBBox, wayLast>>
areaVars == <<nodeAreas, areaMade, areaOuter, areaInner, areaBBox, areaLast>>
regVars == <<nodeReg, wayReg, areaReg, regOps, regLast>>
chainVars == <<chainGiven, chainInput, chainStart, dictLine, resultLine, resultLineIds, chainPc, chainOut>>
catVars == <<catInput, catRewrite, catAdding, catIdx, dictWays, dictAreas, newKey, catPc, catOut>>
ddVars == <<ddInput, ddIdx, ddUnique, ddResult, ddFalse, ddFile, ddPc>>
ioVars == <<srcGiven, srcNodes, srcWays, srcAreas, srcPrint, ioFile, ioIdx, ioPc,
           rdHeap, rdNodeReg, rdWays, rdAreas>>
prVars == <<prInput, prCovers, prContains, prPc, prOut>>
gridVars == <<gridRect, gridCell, gridX, gridY, gridOut, gridPc>>
coordVars == <<ndMade, ndLat, ndLon, ndLast>>
collVars == <<lcObjs, lcNodeWays, lcWays, lcAreas, lcLive, lcLast>>
frVars == <<frFile, frIdx, frNodes, frWays, frAreas, frPc>>
nwVars == <<nwWayNodes, nwNodeWays, nwMap, nwLast>>
ciVars == <<ciNodes, ciNeighbors, ciWays, ciBefore, ciLast>>
gtVars == <<gridProps0, gridProps, gridTags>>
extVars == <<ioVars, prVars, gridVars, coordVars, collVars, frVars, nwVars, ciVars, gtVars>>
mergeVars == <<chainVars, catVars, ddVars, extVars>>
vars == <<neighbors, nbLast, nodeWays, wayMade, wayNodes, wayBBox, wayLast,
          nodeAreas, areaMade, areaOuter, areaInner, areaBBox, areaLast,
          nodeReg, wayReg, areaReg, regOps, regLast,
          chainGiven, chainInput, chainStart, dictLine, resultLine, resultLineIds, chainPc, chainOut,
          catInput, catRewrite, catAdding, catIdx, dictWays, dictAreas, newKey, catPc, catOut,
          ddInput, ddIdx, ddUnique, ddResult, ddFalse, ddFile, ddPc,
          srcGiven, srcNodes, srcWays, srcAreas, srcPrint, ioFile, ioIdx, ioPc,
          rdHeap, rdNodeReg, rdWays, rdAreas,
          prInput, prCovers, prContains, prPc, prOut,
          gridRect, gridCell, gridX, gridY, gridOut, gridPc,
          ndMade, ndLat, ndLon, ndLast,
          lcObjs, lcNodeWays, lcWays, lcAreas, lcLive, lcLast,
          frFile, frIdx, frNodes, frWays, frAreas, frPc,
          nwWayNodes, nwNodeWays, nwMap, nwLast,
          ciNodes, ciNeighbors, ciWays, ciBefore, ciLast,
          gridProps0, gridProps, gridTags>>

(***************************************************************************)
(* Bounds of the model.                                                    *)
(***************************************************************************)
MaxNode == 3
MaxWayLen == 3
MaxWayNode == 2

MaxRegWayLen == 2
MaxInner == 2
MaxRegOps == 4
MaxPool == 3
MaxFeatures == 3
MaxKey == 2
MaxRand == 3
MaxDedup == 3
MaxIoWays == 2
MaxIoInner == 2
MaxIoFile == 2
MaxIoNode == 4
MaxPrune == 3
MaxGrid == 4
MaxCell == 2
MaxEntity == 2

Nodes == 1..MaxNode
WayNodeIds == 1..MaxWayNode
WayIds == {1, 2}
AreaIds == {1, 2}

\* The area the border scenarios work on
BorderAreaIds == {1}

(***************************************************************************)
(* Python list and Optional helpers.                                       *)
(***************************************************************************)
\* `x in s` for a Python list s (Node, Way and Area compare by id).
Contains(s, x) == \E i \in 1..Len(s) : s[i] = x

\* s.index(x): the position of the first occurrence.
IndexOf(s, x) == CHOOSE i \in 1..Len(s) : s[i] = x /\ \A j \in 1..(i - 1) : s[j] # x

\* s.remove(x) on a list that holds x: the first occurrence is deleted.
RemoveFirst(s, x) ==
    LET i == IndexOf(s, x)
    IN  SubSeq(s, 1, i - 1) \o SubSeq(s, i + 1, Len(s))

\* s[::-1] and s.reverse()
Reverse(s) == [i \in 1..Len(s) |-> s[Len(s) + 1 - i]]

\* s[1:]
Tail1(s) == IF s = <<>> THEN <<>> ELSE SubSeq(s, 2, Len(s))

\* Optional[float]: None is the empty tuple, a value v is <<v>>.
None == <<>>
Some(v) == <<v>>
IsNone(o) == o = <<>>
Val(o) == o[1]

\* min() and max() of a non-empty collection of numbers
MinOf(S) == CHOOSE x \in S : \A y \in S : x <= y
MaxOf(S) == CHOOSE x \in S : \A y \in S : x >= y

\* All lists over S of length lo..hi
SeqsOf(S, lo, hi) == UNION {[1..n -> S] : n \in lo..hi}

(***************************************************************************)
(* Node: coordinates are fixed at construction; distinct nodes get         *)
(* distinct latitudes and longitudes inside the valid ranges.              *)
(***************************************************************************)
NodeLat(n) == 10 * n - 25
NodeLon(n) == 40 - 15 * n

(***************************************************************************)
(* Node.add_neighbor / remove_neighbor / clear_neighbors                   *)
(***************************************************************************)
\* A plausible slip: the neighbor is appended without the reverse link.
RECURSIVE add_neighbor_oneway(_, _, _)
add_neighbor_oneway(nb, self, neighbor) ==
    IF neighbor = self THEN nb
    ELSE IF Contains(nb[self], neighbor) THEN nb
    ELSE [nb EXCEPT ![self] = Append(@, neighbor)]

\* Node.add_neighbor: raises for self (nothing changes); otherwise appends the
\* neighbor when absent and calls neighbor.add_neighbor(self).
RECURSIVE add_neighbor(_, _, _)
add_neighbor(nb, self, neighbor) ==
    IF neighbor = self THEN nb
    ELSE IF Contains(nb[self], neighbor) THEN nb
    ELSE add_neighbor([nb EXCEPT ![self] = Append(@, neighbor)], neighbor, self)

\* Node.remove_neighbor: list.remove raises ValueError when absent (caught,
\* returns False); otherwise the reverse link is removed by the nested call.
RECURSIVE remove_neighbor(_, _, _)
remove_neighbor(nb, self, neighbor) ==
    IF ~Contains(nb[self], neighbor) THEN nb
    ELSE remove_neighbor([nb EXCEPT ![self] = RemoveFirst(@, neighbor)], neighbor, self)

\* Node.clear_neighbors: `for neighbor in self._neighbors` walks the list by
\* position while remove_neighbor shortens the same list.
RECURSIVE clear_neighbors_from(_, _, _)
clear_neighbors_from(nb, self, i) ==
    IF i > Len(nb[self]) THEN nb
    ELSE clear_neighbors_from(remove_neighbor(nb, self, nb[self][i]), self, i + 1)

clear_neighbors(nb, self) == clear_neighbors_from(nb, self, 1)

InitNeighbors ==
    /\ neighbors = [n \in Nodes |-> <<>>]
    /\ nbLast = [op |-> "none", a |-> 0, b |-> 0, ret |-> "None"]

AddNeighbor(a, b) ==
    /\ neighbors' = add_neighbor(neighbors, a, b)
    /\ nbLast' = [op |-> "add_neighbor", a |-> a, b |-> b,
                  ret |-> IF a = b THEN "ValueError" ELSE "None"]

RemoveNeighbor(a, b) ==
    /\ neighbors' = remove_neighbor(neighbors, a, b)
    /\ nbLast' = [op |-> "remove_neighbor", a |-> a, b |-> b,
                  ret |-> IF Contains(neighbors[a], b) THEN "True" ELSE "False"]

ClearNeighbors(a) ==
    /\ neighbors' = clear_neighbors(neighbors, a)
    /\ nbLast' = [op |-> "clear_neighbors", a |-> a, b |-> Len(neighbors[a]),
                  ret |-> "None"]

(***************************************************************************)
(* Way: construction, add_node, remove_node, clear_nodes, and the          *)
(* Node.add_way / Node.remove_way back-references they maintain.           *)
(***************************************************************************)
NoBBox == [min_lat |-> None, max_lat |-> None, min_lon |-> None, max_lon |-> None]

Lats(ns) == {NodeLat(ns[i]) : i \in 1..Len(ns)}
Lons(ns) == {NodeLon(ns[i]) : i \in 1..Len(ns)}

\* min/max over a non-empty node list (Way.__init__ and Way.remove_node)
BBoxOf(ns) ==
    [min_lat |-> Some(MinOf(Lats(ns))), max_lat |-> Some(MaxOf(Lats(ns))),
     min_lon |-> Some(MinOf(Lons(ns))), max_lon |-> Some(MaxOf(Lons(ns)))]

\* Node.add_way: appended unless already present
Node_add_way(nw, node, way) ==
    IF Contains(nw[node], way) THEN nw ELSE [nw EXCEPT ![node] = Append(@, way)]

\* Node.remove_way: list.remove, ValueError swallowed
Node_remove_way(nw, node, way) ==
    IF Contains(nw[node], way) THEN [nw EXCEPT ![node] = RemoveFirst(@, way)] ELSE nw

\* for node in nodes: node.add_way(way)
RECURSIVE AddWayToAll(_, _, _, _)
AddWayToAll(nw, ns, way, i) ==
    IF i > Len(ns) THEN nw ELSE AddWayToAll(Node_add_way(nw, ns[i], way), ns, way, i + 1)

\* The incremental bounding-box update of Way.add_node
ExtendBBox(bb, node) ==
    [min_lat |-> IF IsNone(bb.min_lat) \/ NodeLat(node) < Val(bb.min_lat)
                 THEN Some(NodeLat(node)) ELSE bb.min_lat,
     max_lat |-> IF IsNone(bb.max_lat) \/ NodeLat(node) > Val(bb.max_lat)
                 THEN Some(NodeLat(node)) ELSE bb.max_lat,
     min_lon |-> IF IsNone(bb.min_lon) \/ NodeLon(node) < Val(bb.min_lon)
                 THEN Some(NodeLon(node)) ELSE bb.min_lon,
     max_lon |-> IF IsNone(bb.max_lon) \/ NodeLon(node) > Val(bb.max_lon)
                 THEN Some(NodeLon(node)) ELSE bb.max_lon]

\* The state of the Way objects and of the nodes' way lists, as one record
WayState == [nw |-> nodeWays, wn |-> wayNodes, bb |-> wayBBox]

\* Way.add_node
Way_add_node(st, w, node) ==
    [nw |-> Node_add_way(st.nw, node, w),
     wn |-> [st.wn EXCEPT ![w] = Append(@, node)],
     bb |-> [st.bb EXCEPT ![w] = ExtendBBox(@, node)]]

\* Way.remove_node: node.remove_way(self) comes first; self._nodes.remove
\* raises when the node is absent, and min() raises on the emptied list;
\* both ValueErrors are caught and False is returned.
Way_remove_node(st, w, node) ==
    LET nw1 == Node_remove_way(st.nw, node, w)
    IN  IF ~Contains(st.wn[w], node)
        THEN [nw |-> nw1, wn |-> st.wn, bb |-> st.bb]
        ELSE LET rest == RemoveFirst(st.wn[w], node)
             IN  [nw |-> nw1,
                  wn |-> [st.wn EXCEPT ![w] = rest],
                  bb |-> IF rest = <<>> THEN st.bb
                         ELSE [st.bb EXCEPT ![w] = BBoxOf(rest)]]

Way_remove_node_ret(st, w, node) ==
    IF Contains(st.wn[w], node) /\ RemoveFirst(st.wn[w], node) # <<>>
    THEN "True" ELSE "False"

\* Way.clear_nodes: `for node in self._nodes` over the list being shortened
RECURSIVE Way_clear_nodes_from(_, _, _)
Way_clear_nodes_from(st, w, i) ==
    IF i > Len(st.wn[w]) THEN st
    ELSE Way_clear_nodes_from(Way_remove_node(st, w, st.wn[w][i]), w, i + 1)

Way_clear_nodes(st, w) == Way_clear_nodes_from(st, w, 1)

\* Node.clear_ways: self._ways.clear(); the ways keep the node
Node_clear_ways(nw, node) == [nw EXCEPT ![node] = <<>>]

InitWay ==
    /\ nodeWays = [n \in Nodes |-> <<>>]
    /\ wayMade = {}
    /\ wayNodes = [w \in WayIds |-> <<>>]
    /\ wayBBox = [w \in WayIds |-> NoBBox]
    /\ wayLast = [op |-> "none", w |-> 0, n |-> 0, ret |-> "None"]

\* Way.__init__(way_id, nodes=ns)
WayInit(w, ns) ==
    /\ w \notin wayMade
    /\ wayMade' = wayMade \cup {w}
    /\ wayNodes' = [wayNodes EXCEPT ![w] = ns]
    /\ nodeWays' = IF ns = <<>> THEN nodeWays ELSE AddWayToAll(nodeWays, ns, w, 1)
    /\ wayBBox' = [wayBBox EXCEPT ![w] = IF ns = <<>> THEN NoBBox ELSE BBoxOf(ns)]
    /\ wayLast' = [op |-> "init", w |-> w, n |-> Len(ns), ret |-> "None"]

WayAddNode(w, n) ==
    /\ w \in wayMade
    /\ Len(wayNodes[w]) < MaxWayLen
    /\ LET st == Way_add_node(WayState, w, n)
       IN  /\ nodeWays' = st.nw
           /\ wayNodes' = st.wn
           /\ wayBBox' = st.bb
    /\ wayLast' = [op |-> "add_node", w |-> w, n |-> n, ret |-> "None"]
    /\ UNCHANGED wayMade

WayRemoveNode(w, n) ==
    /\ w \in wayMade
    /\ LET st == Way_remove_node(WayState, w, n)
       IN  /\ nodeWays' = st.nw
           /\ wayNodes' = st.wn
           /\ wayBBox' = st.bb
    /\ wayLast' = [op |-> "remove_node", w |-> w, n |-> n,
                   ret |-> Way_remove_node_ret(WayState, w, n)]
    /\ UNCHANGED wayMade

\* node.clear_ways()
NodeClearWays(n) ==
    /\ nodeWays' = Node_clear_ways(nodeWays, n)
    /\ wayLast' = [op |-> "clear_ways", w |-> 0, n |-> n, ret |-> "None"]
    /\ UNCHANGED <<wayMade, wayNodes, wayBBox>>

WayClearNodes(w) ==
    /\ w \in wayMade
    /\ LET st == Way_clear_nodes(WayState, w)
       IN  /\ nodeWays' = st.nw
           /\ wayNodes' = st.wn
           /\ wayBBox' = st.bb
    /\ wayLast' = [op |-> "clear_nodes", w |-> w, n |-> Len(wayNodes[w]), ret |-> "None"]
    /\ UNCHANGED wayMade

(***************************************************************************)
(* Area: construction and the border operations.                           *)
(***************************************************************************)
\* The borders a caller may pass: the empty list, and the closed rings
\* through two distinct nodes
RingPool == {<<>>} \cup {<<p[1], p[2], p[1]>> : p \in {q \in Nodes \X Nodes : q[1] < q[2]}}

\* [self._outer_border] + self._inner_borders, flattened to one node list
RECURSIVE Flatten(_)
Flatten(rings) == IF rings = <<>> THEN <<>> ELSE Head(rings) \o Flatten(Tail(rings))

\* for node in border: the four comparisons of Area._calculate_bounding_box
RECURSIVE ExtendBBoxAll(_, _, _)
ExtendBBoxAll(bb, ns, i) ==
    IF i > Len(ns) THEN bb ELSE ExtendBBoxAll(ExtendBBox(bb, ns[i]), ns, i + 1)

\* Area._calculate_bounding_box: widens the stored box over all rings
Area_calculate_bounding_box(bb, outer, inner) ==
    ExtendBBoxAll(bb, Flatten(<<outer>> \o inner), 1)

\* One Area object as a record
AreaState(a) == [outer |-> areaOuter[a], inner |-> areaInner[a], bb |-> areaBBox[a]]

\* Area.__init__ raises when inner borders come without an outer border
Area_init_raises(outer, inner) == inner # <<>> /\ outer = <<>>

\* Area.__init__(area_id, outer_border=outer, inner_borders=inner)
Area_init(outer, inner) ==
    [outer |-> outer, inner |-> inner,
     bb |-> IF outer # <<>> \/ inner # <<>>
            THEN Area_calculate_bounding_box(NoBBox, outer, inner) ELSE NoBBox]

\* Area.set_outer_border
Area_set_outer_border(ar, border) ==
    [ar EXCEPT !.outer = border,
               !.bb = Area_calculate_bounding_box(ar.bb, border, ar.inner)]

\* Area.outer_border = border (the property setter)
Area_outer_border_setter(ar, border) == [ar EXCEPT !.outer = border]

\* Area.inner_borders = borders (the property setter): no look at the outer
\* border, no bounding-box update
Area_inner_borders_setter(ar, borders) == [ar EXCEPT !.inner = borders]

\* Area.remove_outer_border: raises when inner borders exist
Area_remove_outer_border(ar) ==
    IF ar.inner # <<>> THEN ar ELSE [ar EXCEPT !.outer = <<>>, !.bb = NoBBox]

\* Area.add_inner_border: raises without an outer border
Area_add_inner_border(ar, border) ==
    IF ar.outer = <<>> THEN ar ELSE [ar EXCEPT !.inner = Append(@, border)]

\* Area.remove_inner_border: list.remove by list equality, ValueError -> False
Area_remove_inner_border(ar, border) ==
    IF Contains(ar.inner, border)
    THEN [ar EXCEPT !.inner = RemoveFirst(@, border), !.bb = NoBBox]
    ELSE ar

\* Area.clear_inner_borders
Area_clear_inner_borders(ar) == [ar EXCEPT !.inner = <<>>, !.bb = NoBBox]

\* Node.add_area: appended unless already present
Node_add_area(na, node, area) ==
    IF Contains(na[node], area) THEN na ELSE [na EXCEPT ![node] = Append(@, area)]

InitArea ==
    /\ nodeAreas = [n \in Nodes |-> <<>>]
    /\ areaMade = {}
    /\ areaOuter = [a \in AreaIds |-> <<>>]
    /\ areaInner = [a \in AreaIds |-> <<>>]
    /\ areaBBox = [a \in AreaIds |-> NoBBox]
    /\ areaLast = [op |-> "none", a |-> 0, ret |-> "None"]

\* Write an Area record back to the variables
SetArea(a, ar) ==
    /\ areaOuter' = [areaOuter EXCEPT ![a] = ar.outer]
    /\ areaInner' = [areaInner EXCEPT ![a] = ar.inner]
    /\ areaBBox' = [areaBBox EXCEPT ![a] = ar.bb]

AreaInit(a, outer, inner) ==
    /\ a \notin areaMade
    /\ IF Area_init_raises(outer, inner)
       THEN /\ UNCHANGED <<areaMade, areaOuter, areaInner, areaBBox>>
            /\ areaLast' = [op |-> "init", a |-> a, ret |-> "ValueError"]
       ELSE /\ areaMade' = areaMade \cup {a}
            /\ SetArea(a, Area_init(outer, inner))
            /\ areaLast' = [op |-> "init", a |-> a, ret |-> "None"]
    /\ UNCHANGED nodeAreas

AreaSetOuterBorder(a, border) ==
    /\ a \in areaMade
    /\ SetArea(a, Area_set_outer_border(AreaState(a), border))
    /\ areaLast' = [op |-> "set_outer_border", a |-> a, ret |-> "None"]
    /\ UNCHANGED <<areaMade, nodeAreas>>

AreaAssignOuterBorder(a, border) ==
    /\ a \in areaMade
    /\ SetArea(a, Area_outer_border_setter(AreaState(a), border))
    /\ areaLast' = [op |-> "outer_border", a |-> a, ret |-> "None"]
    /\ UNCHANGED <<areaMade, nodeAreas>>

AreaAssignInnerBorders(a, borders) ==
    /\ a \in areaMade
    /\ SetArea(a, Area_inner_borders_setter(AreaState(a), borders))
    /\ areaLast' = [op |-> "inner_borders", a |-> a, ret |-> "None"]
    /\ UNCHANGED <<areaMade, nodeAreas>>

AreaRemoveOuterBorder(a) ==
    /\ a \in areaMade
    /\ SetArea(a, Area_remove_outer_border(AreaState(a)))
    /\ areaLast' = [op |-> "remove_outer_border", a |-> a,
                    ret |-> IF areaInner[a] # <<>> THEN "ValueError" ELSE "None"]
    /\ UNCHANGED <<areaMade, nodeAreas>>

AreaAddInnerBorder(a, border) ==
    /\ a \in areaMade
    /\ Len(areaInner[a]) < MaxInner
    /\ SetArea(a, Area_add_inner_border(AreaState(a), border))
    /\ areaLast' = [op |-> "add_inner_border", a |-> a,
                    ret |-> IF areaOuter[a] = <<>> THEN "ValueError" ELSE "None"]
    /\ UNCHANGED <<areaMade, nodeAreas>>

AreaRemoveInnerBorder(a, border) ==
    /\ a \in areaMade
    /\ SetArea(a, Area_remove_inner_border(AreaState(a), border))
    /\ areaLast' = [op |-> "remove_inner_border", a |-> a,
                    ret |-> IF Contains(areaInner[a], border) THEN "True" ELSE "False"]
    /\ UNCHANGED <<areaMade, nodeAreas>>

AreaClearInnerBorders(a) ==
    /\ a \in areaMade
    /\ SetArea(a, Area_clear_inner_borders(AreaState(a)))
    /\ areaLast' = [op |-> "clear_inner_borders", a |-> a, ret |-> "None"]
    /\ UNCHANGED <<areaMade, nodeAreas>>

\* node.add_area(area), as the readers call it for the nodes of a new Area
NodeAddArea(n, a) ==
    /\ a \in areaMade
    /\ nodeAreas' = Node_add_area(nodeAreas, n, a)
    /\ UNCHANGED <<areaMade, areaOuter, areaInner, areaBBox, areaLast>>

(***************************************************************************)
(* NodeCollector, WayCollector, AreaCollector                              *)
(***************************************************************************)
\* NodeCollector.add_node: self._nodes[node.id] = node
NodeCollector_add_node(reg, n) == reg \cup {n}

\* NodeCollector.remove_node: del self._nodes[node_id]
NodeCollector_remove_node(reg, n) == reg \ {n}

\* WayCollector.add_way: self._ways[way.id] = way
WayCollector_add_way(reg, w) == reg \cup {w}

\* WayCollector.remove_way, the cascade: for node in way.nodes: node.remove_way(way)
RECURSIVE RemoveWayFromAll(_, _, _, _)
RemoveWayFromAll(nw, ns, way, i) ==
    IF i > Len(ns) THEN nw
    ELSE RemoveWayFromAll(Node_remove_way(nw, ns[i], way), ns, way, i + 1)

\* AreaCollector.add_area: self._areas[area.id] = area
AreaCollector_add_area(reg, a) == reg \cup {a}

\* AreaCollector.remove_area: del self._areas[area_id]
AreaCollector_remove_area(reg, a) == reg \ {a}

\* NodeCollector.clear_nodes: self._nodes.clear()
NodeCollector_clear_nodes(reg) == {}

\* AreaCollector.replace_area: del self._areas[old_area.id] when it is
\* there, then self._areas[new_area.id] = new_area
AreaCollector_replace_area(reg, old, new) == (reg \ {old}) \cup {new}

\* AreaCollector.clean_areas: self._areas.clear()
AreaCollector_clean_areas(reg) == {}

InitRegistry ==
    /\ nodeReg = {}
    /\ wayReg = {}
    /\ areaReg = {}
    /\ regOps = 0
    /\ regLast = [op |-> "none", id |-> 0, ret |-> "None"]

RegTick == regOps < MaxRegOps /\ regOps' = regOps + 1

\* A call that builds or links entities outside the collectors
RegLink == RegTick /\ regLast' = [op |-> "link", id |-> 0, ret |-> "None"]

RegAddNode(n) ==
    /\ RegTick
    /\ nodeReg' = NodeCollector_add_node(nodeReg, n)
    /\ regLast' = [op |-> "add_node", id |-> n, ret |-> "None"]
    /\ UNCHANGED <<wayReg, areaReg>>

RegRemoveNode(n) ==
    /\ RegTick
    /\ nodeReg' = NodeCollector_remove_node(nodeReg, n)
    /\ regLast' = [op |-> "remove_node", id |-> n,
                   ret |-> IF n \in nodeReg THEN "True" ELSE "False"]
    /\ UNCHANGED <<wayReg, areaReg>>

RegClearNodes ==
    /\ RegTick
    /\ nodeReg' = NodeCollector_clear_nodes(nodeReg)
    /\ regLast' = [op |-> "clear_nodes", id |-> 0, ret |-> "None"]
    /\ UNCHANGED <<wayReg, areaReg>>

RegAddWay(w) ==
    /\ RegTick
    /\ w \in wayMade
    /\ wayReg' = WayCollector_add_way(wayReg, w)
    /\ regLast' = [op |-> "add_way", id |-> w, ret |-> "None"]
    /\ UNCHANGED <<nodeReg, areaReg>>

\* WayCollector.remove_way: detaches the way from its nodes, then deletes it
RegRemoveWay(w) ==
    /\ RegTick
    /\ IF w \in wayReg
       THEN /\ nodeWays' = RemoveWayFromAll(nodeWays, wayNodes[w], w, 1)
            /\ wayReg' = wayReg \ {w}
            /\ regLast' = [op |-> "remove_way", id |-> w, ret |-> "True"]
       ELSE /\ UNCHANGED <<nodeWays, wayReg>>
            /\ regLast' = [op |-> "remove_way", id |-> w, ret |-> "False"]
    /\ UNCHANGED <<nodeReg, areaReg>>

RegAddArea(a) ==
    /\ RegTick
    /\ a \in areaMade
    /\ areaReg' = AreaCollector_add_area(areaReg, a)
    /\ regLast' = [op |-> "add_area", id |-> a, ret |-> "None"]
    /\ UNCHANGED <<nodeReg, wayReg>>

RegRemoveArea(a) ==
    /\ RegTick
    /\ areaReg' = AreaCollector_remove_area(areaReg, a)
    /\ regLast' = [op |-> "remove_area", id |-> a,
                   ret |-> IF a \in areaReg THEN "True" ELSE "False"]
    /\ UNCHANGED <<nodeReg, wayReg>>

RegReplaceArea(old, new) ==
    /\ RegTick
    /\ old \in areaMade
    /\ new \in areaMade
    /\ areaReg' = AreaCollector_replace_area(areaReg, old, new)
    /\ regLast' = [op |-> "replace_area", id |-> new, ret |-> "None"]
    /\ UNCHANGED <<nodeReg, wayReg>>

RegCleanAreas ==
    /\ RegTick
    /\ areaReg' = AreaCollector_clean_areas(areaReg)
    /\ regLast' = [op |-> "clean_areas", id |-> 0, ret |-> "None"]
    /\ UNCHANGED <<nodeReg, wayReg>>

(***************************************************************************)
(* Python dict (insertion ordered) as a list of [k, v] entries.            *)
(***************************************************************************)
DictHas(d, k) == \E i \in 1..Len(d) : d[i].k = k

DictGet(d, k) == d[IndexOf([i \in 1..Len(d) |-> d[i].k], k)].v

\* d[k] = v: an existing key keeps its position, a new key goes last
DictPut(d, k, v) ==
    IF DictHas(d, k)
    THEN [i \in 1..Len(d) |-> IF d[i].k = k THEN [k |-> k, v |-> v] ELSE d[i]]
    ELSE Append(d, [k |-> k, v |-> v])

\* del d[k]
DictDel(d, k) == SelectSeq(d, LAMBDA e : e.k # k)

\* list(d.values())
DictValues(d) == [i \in 1..Len(d) |-> d[i].v]

(***************************************************************************)
(* ParceGeojson.concat_coastline_sea                                       *)
(***************************************************************************)
\* The feature id the chaining loop treats specially
SpecialId == 144

\* The coordinate pair (lon, lat) of a point id
Coord(p) == <<NodeLon(p), NodeLat(p)>>

Coords(ids) == [i \in 1..Len(ids) |-> Coord(ids[i])]

\* A LineString feature: id, properties["OSM_id_nodes"], geometry.coordinates
LineFeature(id, ids) == [id |-> id, ids |-> ids, coords |-> Coords(ids)]

\* The point-id sequences of the lines a pool may hold
LineCatalog ==
    {<<1, 2, 3>>, <<3, 2, 1>>, <<3, 4>>, <<5, 4>>, <<1, 5>>, <<4, 1>>}

ChainFeatureIds == {1, 2, 3, SpecialId}

\* Pools: up to MaxPool features with pairwise distinct ids
ChainPools ==
    {q \in UNION {[1..n -> {LineFeature(id, ids) : id \in ChainFeatureIds, ids \in LineCatalog}]
                    : n \in 1..MaxPool} :
        \A i \in 1..Len(q), j \in 1..Len(q) : i # j => q[i].id # q[j].id}

\* for feature in features: dict_line[feature.id] = feature
RECURSIVE BuildDictLine(_, _, _)
BuildDictLine(d, fs, i) ==
    IF i > Len(fs) THEN d ELSE BuildDictLine(DictPut(d, fs[i].id, fs[i]), fs, i + 1)

\* The first `if` of the scan: the chain's last id is the feature's first id
HeadMatch(rids, f) == rids[Len(rids)] = f.ids[1]

\* The second `if` of the scan: the chain's last id is the feature's last id
TailMatch(rids, f) == rids[Len(rids)] = f.ids[Len(f.ids)]

\* A variant of the scan that looks at the first ids only
HasHeadMatch(d, rids) == \E i \in 1..Len(d) : HeadMatch(rids, d[i].v)

\* The feature at which `for feature in dict_line.values()` breaks, if any
HasMatch(d, rids) == \E i \in 1..Len(d) : HeadMatch(rids, d[i].v) \/ TailMatch(rids, d[i].v)

FirstMatch(d, rids) ==
    d[CHOOSE i \in 1..Len(d) :
        /\ HeadMatch(rids, d[i].v) \/ TailMatch(rids, d[i].v)
        /\ \A j \in 1..(i - 1) : ~(HeadMatch(rids, d[j].v) \/ TailMatch(rids, d[j].v))].v

\* The list a matching feature contributes before its first element is cut:
\* head match: as stored, reversed for feature id 144; tail match: reversed.
Oriented(rids, f, s) ==
    IF HeadMatch(rids, f)
    THEN (IF f.id = SpecialId THEN Reverse(s) ELSE s)
    ELSE Reverse(s)

\* The Feature built from the chain after the loop
MergedFeature(start, rline, rids) == [id |-> start, ids |-> rids, coords |-> rline]

InitChain ==
    /\ chainInput \in ChainPools
    /\ chainGiven = chainInput
    /\ chainStart \in ChainFeatureIds
    /\ dictLine = <<>>
    /\ resultLine = <<>>
    /\ resultLineIds = <<>>
    /\ chainPc = "start"
    /\ chainOut = <<>>

IdleChain ==
    /\ chainGiven = <<>>
    /\ chainInput = <<>>
    /\ chainStart = 0
    /\ dictLine = <<>>
    /\ resultLine = <<>>
    /\ resultLineIds = <<>>
    /\ chainPc = "idle"
    /\ chainOut = <<>>

\* list.reverse() on geometry.coordinates and on properties["OSM_id_nodes"]
\* of the feature stored under id: the lists of the feature object itself
ReverseInPlace(fs, id) ==
    [i \in 1..Len(fs) |->
        IF fs[i].id = id
        THEN [fs[i] EXCEPT !.ids = Reverse(@), !.coords = Reverse(@)]
        ELSE fs[i]]

\* Lines 166-179: build dict_line, reverse the start line in place, copy it
\* to the chain, delete it
ChainStart ==
    /\ chainPc = "start"
    /\ LET d == BuildDictLine(<<>>, chainInput, 1)
       IN  IF ~DictHas(d, chainStart)
           THEN /\ chainPc' = "error"
                /\ dictLine' = d
                /\ UNCHANGED <<chainInput, resultLine, resultLineIds>>
           ELSE /\ chainInput' = ReverseInPlace(chainInput, chainStart)
                /\ resultLine' = Reverse(DictGet(d, chainStart).coords)
                /\ resultLineIds' = Reverse(DictGet(d, chainStart).ids)
                /\ dictLine' = DictDel(d, chainStart)
                /\ chainPc' = "scan"
    /\ UNCHANGED <<chainGiven, chainStart, chainOut>>

\* One pass of the while loop that finds a match: extend the chain, delete
\* the feature, scan again. The first branch works on slices; the second
\* reverses the lists of the matched feature in place.
ChainMerge ==
    /\ chainPc = "scan"
    /\ HasMatch(dictLine, resultLineIds)
    /\ LET f == FirstMatch(dictLine, resultLineIds)
       IN  /\ resultLine' = resultLine \o Tail1(Oriented(resultLineIds, f, f.coords))
           /\ resultLineIds' = resultLineIds \o Tail1(Oriented(resultLineIds, f, f.ids))
           /\ dictLine' = DictDel(dictLine, f.id)
           /\ chainInput' = IF HeadMatch(resultLineIds, f) THEN chainInput
                             ELSE ReverseInPlace(chainInput, f.id)
    /\ UNCHANGED <<chainGiven, chainStart, chainPc, chainOut>>

\* The pass that finds no match ends the loop; lines 219-236 build the result
ChainFinish ==
    /\ chainPc = "scan"
    /\ ~HasMatch(dictLine, resultLineIds)
    /\ LET d == DictPut(dictLine, chainStart,
                        MergedFeature(chainStart, resultLine, resultLineIds))
       IN  /\ dictLine' = d
           /\ chainOut' = DictValues(d)
    /\ chainPc' = "done"
    /\ UNCHANGED <<chainGiven, chainInput, chainStart, resultLine, resultLineIds>>

(***************************************************************************)
(* ParceGeojson.concat_geojson_features                                    *)
(***************************************************************************)
\* The values tags["OSM_way_id"] / tags["OSM_area_id"] may take
Keys == 1..MaxKey

\* What random.randint may return (the range overlaps the keys in use)
RandKeys == 1..MaxRand

\* A feature: geometry.type and the tag its type is keyed by (OSM_way_id for
\* a LineString, OSM_area_id for a Polygon; None when the tag is missing).
\* uid tells the feature objects apart.
CatFeatureKinds ==
    [type : {"LineString", "Polygon", "Point"}, key : {None} \cup {Some(k) : k \in Keys}]

CatInputs ==
    UNION {[1..n -> CatFeatureKinds] : n \in 0..MaxFeatures}

CatFeature(i) == [uid |-> i, type |-> catInput[i].type, key |-> catInput[i].key]

\* feature.id = len(features); features.append(feature), for the values of
\* both dicts, ways first
RECURSIVE Renumber(_, _)
Renumber(fs, i) ==
    IF i > Len(fs) THEN <<>>
    ELSE <<[id |-> i - 1, uid |-> fs[i].uid, type |-> fs[i].type, key |-> fs[i].key]>>
            \o Renumber(fs, i + 1)

\* The first-seen branch shared by both geometry types: a new key is stored
StoreIfNew(d, k, f) == IF DictHas(d, k) THEN d ELSE DictPut(d, k, f)

InitConcat ==
    /\ catInput \in CatInputs
    /\ catRewrite \in BOOLEAN
    /\ catAdding \in BOOLEAN
    /\ catIdx = 1
    /\ dictWays = <<>>
    /\ dictAreas = <<>>
    /\ newKey = 0
    /\ catPc = "loop"
    /\ catOut = <<>>

IdleConcat ==
    /\ catInput = <<>>
    /\ catRewrite = TRUE
    /\ catAdding = FALSE
    /\ catIdx = 1
    /\ dictWays = <<>>
    /\ dictAreas = <<>>
    /\ newKey = 0
    /\ catPc = "idle"
    /\ catOut = <<>>

\* The branch a keyed feature takes in the loop body, given its dict
CatBranch(d, f) ==
    IF f.key = None THEN "error"
    ELSE IF ~DictHas(d, Val(f.key)) THEN "store"
    ELSE IF catRewrite THEN "overwrite"
    ELSE IF catAdding THEN "rekey"
    ELSE "skip"

\* One iteration of the loop over the features (lines 63-97)
ConcatStep ==
    /\ catPc = "loop"
    /\ catIdx <= Len(catInput)
    /\ LET f == CatFeature(catIdx)
       IN  CASE f.type = "LineString" ->
                  LET b == CatBranch(dictWays, f)
                  IN  /\ dictWays' = IF b = "store" THEN StoreIfNew(dictWays, Val(f.key), f)
                                     ELSE dictWays
                      /\ catPc' = IF b = "error" THEN "error"
                                  ELSE IF b = "rekey" THEN "rekey_way" ELSE "loop"
                      /\ newKey' = IF b = "rekey" THEN Val(f.key) ELSE newKey
                      /\ catIdx' = IF b \in {"error", "rekey"} THEN catIdx ELSE catIdx + 1
                      /\ UNCHANGED dictAreas
             [] f.type = "Polygon" ->
                  LET b == CatBranch(dictAreas, f)
                  IN  /\ dictAreas' = IF b = "store" THEN StoreIfNew(dictAreas, Val(f.key), f)
                                      ELSE dictAreas
                      /\ catPc' = IF b = "error" THEN "error"
                                  ELSE IF b = "rekey" THEN "rekey_area" ELSE "loop"
                      /\ newKey' = IF b = "rekey" THEN Val(f.key) ELSE newKey
                      /\ catIdx' = IF b \in {"error", "rekey"} THEN catIdx ELSE catIdx + 1
                      /\ UNCHANGED dictWays
             [] OTHER ->
                  /\ catIdx' = catIdx + 1
                  /\ UNCHANGED <<dictWays, dictAreas, catPc, newKey>>
    /\ UNCHANGED <<catInput, catRewrite, catAdding, catOut>>

\* Lines 74-77: `while new_key in dict_ways_collectors:` draws a random
\* number and drops it, new_key is not assigned; line 77 stores the feature
\* once the loop has ended.
RekeyWay ==
    /\ catPc = "rekey_way"
    /\ IF DictHas(dictWays, newKey)
       THEN /\ \E r \in RandKeys : newKey' = newKey
            /\ UNCHANGED <<dictWays, catIdx, catPc>>
       ELSE /\ dictWays' = DictPut(dictWays, newKey, CatFeature(catIdx))
            /\ catIdx' = catIdx + 1
            /\ catPc' = "loop"
            /\ UNCHANGED newKey
    /\ UNCHANGED <<catInput, catRewrite, catAdding, dictAreas, catOut>>

\* Lines 91-94: `while new_key in dict_areas_collectors:` assigns the draw
\* to new_key; line 94 stores the feature once the loop has ended.
RekeyArea ==
    /\ catPc = "rekey_area"
    /\ IF DictHas(dictAreas, newKey)
       THEN /\ \E r \in RandKeys : newKey' = r
            /\ UNCHANGED <<dictAreas, catIdx, catPc>>
       ELSE /\ dictAreas' = DictPut(dictAreas, newKey, CatFeature(catIdx))
            /\ catIdx' = catIdx + 1
            /\ catPc' = "loop"
            /\ UNCHANGED newKey
    /\ UNCHANGED <<catInput, catRewrite, catAdding, dictWays, catOut>>

\* Lines 99-108: the merged collection, ways first, ids renumbered
ConcatFinish ==
    /\ catPc = "loop"
    /\ catIdx > Len(catInput)
    /\ catOut' = Renumber(DictValues(dictWays) \o DictValues(dictAreas), 1)
    /\ catPc' = "done"
    /\ UNCHANGED <<catInput, catRewrite, catAdding, catIdx, dictWays, dictAreas, newKey>>

(***************************************************************************)
(* ParceGeojson.remove_duplicate_features                                  *)
(***************************************************************************)
\* Geometries: a type and a list of coordinate lists (the one line of a
\* LineString, the rings of a Polygon); a number stands for one coordinate
\* pair.
GeomPool ==
    {[type |-> "LineString", coords |-> <<<<1, 2>>>>],
     [type |-> "LineString", coords |-> <<<<2, 1>>>>],
     [type |-> "LineString", coords |-> <<<<1>>>>],
     [type |-> "Polygon", coords |-> <<<<1, 2, 3, 1>>>>],
     [type |-> "Polygon", coords |-> <<<<1, 2, 3>>>>],
     [type |-> "Polygon", coords |-> <<<<1, 2>>>>]}

\* shapely closes a ring whose first and last coordinates differ
CloseRing(r) == IF r # <<>> /\ r[1] # r[Len(r)] THEN Append(r, r[1]) ELSE r

\* shape(geometry) raises: a LineString of one coordinate, or a ring that
\* after closing has fewer than four coordinates
ShapeRaises(g) ==
    IF g.type = "LineString"
    THEN Len(g.coords[1]) = 1
    ELSE \E i \in 1..Len(g.coords) :
            g.coords[i] # <<>> /\ Len(CloseRing(g.coords[i])) < 4

\* shape(geometry).wkt: the type name and the coordinates, rings closed
Wkt(g) ==
    IF g.type = "LineString" THEN <<"LINESTRING", g.coords>>
    ELSE <<"POLYGON", [i \in 1..Len(g.coords) |-> CloseRing(g.coords[i])]>>

\* A feature: its geometry and whether it carries a "boundingbox" member
\* (feature.boundingbox raises AttributeError without one)
DedupFeatureKinds == [geom : GeomPool, bbox : BOOLEAN]

DedupInputs == UNION {[1..n -> DedupFeatureKinds] : n \in 0..MaxDedup}

DedupFeature(i) == [uid |-> i, geom |-> ddInput[i].geom, bbox |-> ddInput[i].bbox]

\* A plausible variant: a later feature with the same WKT replaces the first
UniquePutLast(d, k, f) == DictPut(d, k, f)

\* Lines 306-309: the first feature of each WKT is kept
UniquePut(d, k, f) == IF DictHas(d, k) THEN d ELSE DictPut(d, k, f)

InitDedup ==
    /\ ddInput \in DedupInputs
    /\ ddIdx = 1
    /\ ddUnique = <<>>
    /\ ddResult = <<>>
    /\ ddFalse = <<>>
    /\ ddFile = None
    /\ ddPc = "canon"

IdleDedup ==
    /\ ddInput = <<>>
    /\ ddIdx = 1
    /\ ddUnique = <<>>
    /\ ddResult = <<>>
    /\ ddFalse = <<>>
    /\ ddFile = None
    /\ ddPc = "idle"

\* One iteration of the first loop (lines 304-309); shape() is outside any
\* try, so its exception leaves the function
DedupCanon ==
    /\ ddPc = "canon"
    /\ ddIdx <= Len(ddInput)
    /\ LET f == DedupFeature(ddIdx)
       IN  IF ShapeRaises(f.geom)
           THEN /\ ddPc' = "error"
                /\ UNCHANGED <<ddUnique, ddIdx>>
           ELSE /\ ddUnique' = UniquePut(ddUnique, Wkt(f.geom), f)
                /\ ddIdx' = ddIdx + 1
                /\ UNCHANGED ddPc
    /\ UNCHANGED <<ddInput, ddResult, ddFalse, ddFile>>

\* The first loop is over
DedupCanonEnd ==
    /\ ddPc = "canon"
    /\ ddIdx > Len(ddInput)
    /\ ddPc' = "build"
    /\ ddIdx' = 1
    /\ UNCHANGED <<ddInput, ddUnique, ddResult, ddFalse, ddFile>>

\* One iteration of the second loop (lines 313-325): the Feature is rebuilt
\* with id = len(result); any exception sends the feature to false_features
DedupBuild ==
    /\ ddPc = "build"
    /\ ddIdx <= Len(ddUnique)
    /\ LET f == ddUnique[ddIdx].v
       IN  IF f.bbox
           THEN /\ ddResult' = Append(ddResult, [id |-> Len(ddResult), uid |-> f.uid,
                                                 geom |-> f.geom])
                /\ UNCHANGED ddFalse
           ELSE /\ ddFalse' = Append(ddFalse, f)
                /\ UNCHANGED ddResult
    /\ ddIdx' = ddIdx + 1
    /\ UNCHANGED <<ddInput, ddUnique, ddFile, ddPc>>

\* Lines 327-338: false_features.geojson is written, the result returned
DedupWrite ==
    /\ ddPc = "build"
    /\ ddIdx > Len(ddUnique)
    /\ ddFile' = Some(ddFalse)
    /\ ddPc' = "done"
    /\ UNCHANGED <<ddInput, ddIdx, ddUnique, ddResult, ddFalse>>

(***************************************************************************)
(* IOPs_geojson.write_geojson                                              *)
(***************************************************************************)
\* A feature of the file: geometry.type, id, geometry.coordinates as a list
\* of coordinate lists (the one list of a LineString, the rings of a
\* Polygon) and properties["OSM_id_nodes"] in the same shape.
IoFeature(type, id, coords, ids) ==
    [type |-> type, id |-> id, coords |-> coords, ids |-> ids]

\* One feature per way, in the order of ways_collector.ways
convert_way_collector_to_list_features(ways) ==
    [i \in 1..Len(ways) |->
        IoFeature("LineString", ways[i].k, <<Coords(ways[i].v)>>, <<ways[i].v>>)]

\* A variant that leaves an open border as it is
KeepBorder(b) == b

\* Lines 132-136 and 146-151: the first node is appended to an open border
CloseBorder(b) == IF b[1] # b[Len(b)] THEN Append(b, b[1]) ELSE b

\* An inner border after the conversion looked at it (lines 140-151)
FixInnerBorder(b) == IF Len(b) < 3 THEN b ELSE CloseBorder(b)

\* The borders of an area after the conversion visited it: the conversion
\* appends to the lists of the area itself
AreaAfterWrite(ar) ==
    IF Len(ar.outer) < 3 THEN ar
    ELSE [outer |-> CloseBorder(ar.outer),
          inner |-> [j \in 1..Len(ar.inner) |-> FixInnerBorder(ar.inner[j])]]

\* all_rings / list_node_id_from_area: the outer border, then every inner
\* border of at least 3 nodes
EmittedRings(ar) ==
    <<AreaAfterWrite(ar).outer>>
        \o SelectSeq(AreaAfterWrite(ar).inner, LAMBDA r : Len(r) >= 3)

\* One feature per area whose outer border has at least 3 nodes
convert_area_collector_to_list_features(areas) ==
    LET kept == SelectSeq(areas, LAMBDA e : Len(e.v.outer) >= 3)
    IN  [i \in 1..Len(kept) |->
            IoFeature("Polygon", kept[i].k,
                      [j \in 1..Len(EmittedRings(kept[i].v)) |-> Coords(EmittedRings(kept[i].v)[j])],
                      EmittedRings(kept[i].v))]

\* One Point feature per node of list_print_points; it has no properties
convert_list_point_to_list_features(points) ==
    [i \in 1..Len(points) |-> IoFeature("Point", points[i], <<<<Coord(points[i])>>>>, <<>>)]

\* Lines 58-64: nothing to write
write_raises(nodes, ways, areas, points) ==
    nodes = {} /\ ways = <<>> /\ areas = <<>> /\ points = <<>>

(***************************************************************************)
(* IOPs_geojson.read_geojson                                               *)
(***************************************************************************)
\* Node(node_id=id, lon=coordinate[0], lat=coordinate[1])
NewNode(id, c) == [id |-> id, lon |-> c[1], lat |-> c[2], ways |-> <<>>, areas |-> <<>>]

\* Lines 226-232 and 262-272: the nodes of a coordinate list, taken from the
\* node collector when the id is known and created and registered otherwise.
\* st = [heap, reg, refs, err]; err is the IndexError of id_nodes[i].
RECURSIVE ReadSharedNodes(_, _, _, _)
ReadSharedNodes(st, coords, ids, i) ==
    IF i > Len(coords) THEN st
    ELSE IF i > Len(ids) THEN [st EXCEPT !.err = TRUE]
    ELSE IF DictHas(st.reg, ids[i])
    THEN ReadSharedNodes([st EXCEPT !.refs = Append(@, DictGet(st.reg, ids[i]))],
                         coords, ids, i + 1)
    ELSE LET h == Append(st.heap, NewNode(ids[i], coords[i]))
         IN  ReadSharedNodes([heap |-> h, reg |-> DictPut(st.reg, ids[i], Len(h)),
                              refs |-> Append(st.refs, Len(h)), err |-> FALSE],
                             coords, ids, i + 1)

\* Lines 290-297: the nodes of an inner ring are always new objects and are
\* not put into the node collector
ReadFreshNodes(heap, coords, ids) ==
    heap \o [i \in 1..Len(coords) |-> NewNode(ids[i], coords[i])]

\* Lines 274-298: the inner borders; a ring whose counts differ is left out.
\* st = [heap, rings]
RECURSIVE ReadInnerBorders(_, _, _)
ReadInnerBorders(st, f, j) ==
    IF j > Len(f.coords) THEN st
    ELSE IF Len(f.coords[j]) # Len(f.ids[j]) THEN ReadInnerBorders(st, f, j + 1)
    ELSE ReadInnerBorders(
            [heap |-> ReadFreshNodes(st.heap, f.coords[j], f.ids[j]),
             rings |-> Append(st.rings,
                              [i \in 1..Len(f.coords[j]) |-> Len(st.heap) + i])],
            f, j + 1)

RefSet(refs) == {refs[i] : i \in 1..Len(refs)}

\* node.add_way(way) for every node of the way
HeapAddWay(heap, refs, w) ==
    [r \in 1..Len(heap) |->
        IF r \in RefSet(refs) /\ ~Contains(heap[r].ways, w)
        THEN [heap[r] EXCEPT !.ways = Append(@, w)] ELSE heap[r]]

\* node.add_area(area) for every node of the borders
HeapAddArea(heap, refs, a) ==
    [r \in 1..Len(heap) |->
        IF r \in RefSet(refs) /\ ~Contains(heap[r].areas, a)
        THEN [heap[r] EXCEPT !.areas = Append(@, a)] ELSE heap[r]]

\* The bounding box Way.__init__ and Area._calculate_bounding_box compute
\* from the coordinates of the nodes
HeapBBox(heap, refs) ==
    IF refs = <<>> THEN NoBBox
    ELSE [min_lat |-> Some(MinOf({heap[r].lat : r \in RefSet(refs)})),
          max_lat |-> Some(MaxOf({heap[r].lat : r \in RefSet(refs)})),
          min_lon |-> Some(MinOf({heap[r].lon : r \in RefSet(refs)})),
          max_lon |-> Some(MaxOf({heap[r].lon : r \in RefSet(refs)}))]

\* The node lists of the ways and the borders of the areas a store may hold
IoWayPool == {<<1, 2>>, <<2, 3>>, <<1, 2, 1>>}
IoRingPool == {<<1, 2, 3, 1>>, <<1, 2, 3>>, <<1, 2>>, <<2, 3, MaxIoNode, 2>>}

\* Up to MaxIoWays ways, with ids 1, 2, ...
IoWayStores ==
    {[i \in 1..Len(ws) |-> [k |-> i, v |-> ws[i]]] : ws \in SeqsOf(IoWayPool, 0, MaxIoWays)}

\* No area, or area 1 with an outer border and up to MaxIoInner inner borders
IoAreaStores ==
    {<<>>} \cup {<<[k |-> 1, v |-> [outer |-> o, inner |-> inn]]>> :
                    o \in IoRingPool, inn \in SeqsOf(IoRingPool, 0, MaxIoInner)}

\* The node ids the ways and areas of a store refer to
IoReferenced(ways, areas) ==
    UNION {RefSet(ways[i].v) : i \in 1..Len(ways)}
        \cup UNION {RefSet(Flatten(<<areas[i].v.outer>> \o areas[i].v.inner)) : i \in 1..Len(areas)}

\* Files given to read_geojson directly: coordinate lists and id lists as
\* they may disagree in a file. Each entry is <<type, coords ids, id lists>>,
\* the coordinates being those of the listed point ids.
IoFileCatalog ==
    {<<"LineString", <<<<1, 2>>>>, <<<<1, 2>>>>>>,
     <<"LineString", <<<<1, 2>>>>, <<<<1, 2, 3>>>>>>,
     <<"LineString", <<<<1, 2, 3>>>>, <<<<1, 2>>>>>>,
     <<"Polygon", <<<<1, 2, 3, 1>>, <<2, 3, 2>>>>, <<<<1, 2, 3, 1>>, <<2, 3, 2>>>>>>,
     <<"Polygon", <<<<1, 2, 3, 1>>>>, <<<<1, 2, 3>>>>>>,
     <<"Polygon", <<<<1, 2, 3, 1>>, <<2, 3, 2>>>>, <<<<1, 2, 3, 1>>, <<2, 3>>>>>>,
     <<"Point", <<<<1>>>>, <<>>>>}

IoReadFiles ==
    {[i \in 1..Len(q) |->
        IoFeature(q[i][1], i, [j \in 1..Len(q[i][2]) |-> Coords(q[i][2][j])], q[i][3])] :
        q \in SeqsOf(IoFileCatalog, 1, MaxIoFile)}

InitIO ==
    /\ ioIdx = 1
    /\ rdHeap = <<>>
    /\ rdNodeReg = <<>>
    /\ rdWays = <<>>
    /\ rdAreas = <<>>
    /\ \/ /\ srcWays \in IoWayStores
          /\ srcAreas \in IoAreaStores
          /\ \E extra \in SUBSET {MaxIoNode} :
                /\ srcNodes = IoReferenced(srcWays, srcAreas) \cup extra
                /\ srcPrint \in {<<>>} \cup {<<n>> : n \in extra}
          /\ srcGiven = [nodes |-> srcNodes, ways |-> srcWays, areas |-> srcAreas]
          /\ ioFile = <<>>
          /\ ioPc = "write"
       \/ /\ srcWays = <<>>
          /\ srcAreas = <<>>
          /\ srcNodes = {}
          /\ srcPrint = <<>>
          /\ srcGiven = [nodes |-> {}, ways |-> <<>>, areas |-> <<>>]
          /\ ioFile \in IoReadFiles
          /\ ioPc = "read"

IdleIO ==
    /\ ioIdx = 1
    /\ rdHeap = <<>>
    /\ rdNodeReg = <<>>
    /\ rdWays = <<>>
    /\ rdAreas = <<>>
    /\ srcWays = <<>>
    /\ srcAreas = <<>>
    /\ srcNodes = {}
    /\ srcPrint = <<>>
    /\ srcGiven = [nodes |-> {}, ways |-> <<>>, areas |-> <<>>]
    /\ ioFile = <<>>
    /\ ioPc = "idle"

\* write_geojson(path, nodes_collector, areas_collector, ways_collector,
\* list_print_points); the file is then the one read_geojson opens
IoWrite ==
    /\ ioPc = "write"
    /\ IF write_raises(srcNodes, srcWays, srcAreas, srcPrint)
       THEN /\ ioPc' = "error"
            /\ UNCHANGED <<ioFile, srcAreas>>
       ELSE /\ ioFile' = convert_way_collector_to_list_features(srcWays)
                            \o convert_area_collector_to_list_features(srcAreas)
                            \o convert_list_point_to_list_features(srcPrint)
            /\ srcAreas' = [i \in 1..Len(srcAreas) |->
                              [k |-> srcAreas[i].k, v |-> AreaAfterWrite(srcAreas[i].v)]]
            /\ ioPc' = "read"
    /\ UNCHANGED <<srcGiven, srcNodes, srcWays, srcPrint, ioIdx, rdHeap, rdNodeReg, rdWays, rdAreas>>

\* Lines 215-239: a LineString feature
ReadLineString(f) ==
    LET st == ReadSharedNodes([heap |-> rdHeap, reg |-> rdNodeReg, refs |-> <<>>, err |-> FALSE],
                              f.coords[1], f.ids[1], 1)
    IN  IF st.err
        THEN /\ ioPc' = "error"
             /\ rdHeap' = st.heap
             /\ rdNodeReg' = st.reg
             /\ UNCHANGED <<rdWays, rdAreas, ioIdx>>
        ELSE /\ rdHeap' = HeapAddWay(st.heap, st.refs, f.id)
             /\ rdNodeReg' = st.reg
             /\ rdWays' = DictPut(rdWays, f.id,
                                  [nodes |-> st.refs, bbox |-> HeapBBox(st.heap, st.refs)])
             /\ ioIdx' = ioIdx + 1
             /\ UNCHANGED <<rdAreas, ioPc>>

\* Lines 241-314: a Polygon feature
ReadPolygon(f) ==
    IF Len(f.coords[1]) # Len(f.ids[1])
    THEN /\ ioIdx' = ioIdx + 1
         /\ UNCHANGED <<rdHeap, rdNodeReg, rdWays, rdAreas, ioPc>>
    ELSE LET st == ReadSharedNodes([heap |-> rdHeap, reg |-> rdNodeReg, refs |-> <<>>,
                                    err |-> FALSE], f.coords[1], f.ids[1], 1)
             inn == ReadInnerBorders([heap |-> st.heap, rings |-> <<>>], f, 2)
             all == st.refs \o Flatten(inn.rings)
         IN  IF inn.rings # <<>> /\ st.refs = <<>>
             THEN /\ ioPc' = "error"
                  /\ rdHeap' = inn.heap
                  /\ rdNodeReg' = st.reg
                  /\ UNCHANGED <<rdWays, rdAreas, ioIdx>>
             ELSE /\ rdHeap' = HeapAddArea(inn.heap, all, f.id)
                  /\ rdNodeReg' = st.reg
                  /\ rdAreas' = DictPut(rdAreas, f.id,
                                        [outer |-> st.refs, inner |-> inn.rings,
                                         bbox |-> HeapBBox(inn.heap, all)])
                  /\ ioIdx' = ioIdx + 1
                  /\ UNCHANGED <<rdWays, ioPc>>

\* One iteration of `for feature in data.features` (lines 213-314); a
\* feature of another geometry type is passed over
IoReadFeature ==
    /\ ioPc = "read"
    /\ ioIdx <= Len(ioFile)
    /\ LET f == ioFile[ioIdx]
       IN  CASE f.type = "LineString" -> ReadLineString(f)
             [] f.type = "Polygon" -> ReadPolygon(f)
             [] OTHER -> /\ ioIdx' = ioIdx + 1
                         /\ UNCHANGED <<rdHeap, rdNodeReg, rdWays, rdAreas, ioPc>>
    /\ UNCHANGED <<srcGiven, srcNodes, srcWays, srcAreas, srcPrint, ioFile>>

\* Lines 316-322: the three collectors are returned
IoReadDone ==
    /\ ioPc = "read"
    /\ ioIdx > Len(ioFile)
    /\ ioPc' = "done"
    /\ UNCHANGED <<srcGiven, srcNodes, srcWays, srcAreas, srcPrint, ioFile, ioIdx,
                   rdHeap, rdNodeReg, rdWays, rdAreas>>


(***************************************************************************)
(* ParceGeojson.remove_duplicate_line and remove_feature_in_inner_boards   *)
(***************************************************************************)
\* Geometries are tokens; the shapely predicates covers and contains are
\* relations on the tokens, any relations at all. A feature has an id, a
\* geometry type, the token g of its line or outer ring and the tokens of its
\* inner rings; uid is its position in the input.
GeomTokens == {1, 2}

GeomRelations == [GeomTokens \X GeomTokens -> BOOLEAN]

PrFeature(i, id, kind) ==
    [uid |-> i, id |-> id, type |-> kind[1], g |-> kind[2], inner |-> kind[3]]

\* The features of an input: ids are the positions, or all the same
PrInputs(kinds) ==
    {[i \in 1..Len(q) |-> PrFeature(i, IF same THEN 1 ELSE i, q[i])] :
        q \in SeqsOf(kinds, 0, MaxPrune), same \in BOOLEAN}

LineKinds ==
    {<<"LineString", g, <<>>>> : g \in GeomTokens} \cup {<<"Polygon", g, <<>>>> : g \in GeomTokens}

InnerKinds ==
    {<<"Polygon", g, <<>>>> : g \in GeomTokens}
        \cup {<<"Polygon", 1, <<1>>>>, <<"Polygon", 1, <<1, 2>>>>, <<"LineString", 1, <<>>>>}

\* dict[feature.id] = feature for every feature of the given type
RECURSIVE ById(_, _, _, _)
ById(d, fs, type, i) ==
    IF i > Len(fs) THEN d
    ELSE ById(IF fs[i].type = type THEN DictPut(d, fs[i].id, fs[i]) ELSE d, fs, type, i + 1)

\* `x.covers(y) and not x.contains(y)`
CoveredNotContained(cov, con, a, b) == cov[<<a, b>>] /\ ~con[<<a, b>>]

\* Lines 283-291: a way is kept when the loop over the areas ends without break
remove_duplicate_line(fs, cov, con) ==
    LET ways == DictValues(ById(<<>>, fs, "LineString", 1))
        areas == DictValues(ById(<<>>, fs, "Polygon", 1))
        kept == SelectSeq(ways, LAMBDA w :
                    ~\E i \in 1..Len(areas) : CoveredNotContained(cov, con, areas[i].g, w.g))
    IN  kept \o areas

\* Lines 350-364: the ids deleted from result_dict_search_features
InnerDeleted(polys, cov, con) ==
    {polys[k].id : k \in {k \in 1..Len(polys) :
        /\ polys[k].inner = <<>>
        /\ \E i \in 1..Len(polys) : \E j \in 1..Len(polys[i].inner) :
              CoveredNotContained(cov, con, polys[i].inner[j], polys[k].g)}}

\* Lines 365-371: the features of the input that are not polygons or whose
\* id is still in result_dict_search_features
remove_feature_in_inner_boards(fs, cov, con) ==
    LET polys == DictValues(ById(<<>>, fs, "Polygon", 1))
        gone == InnerDeleted(polys, cov, con)
    IN  SelectSeq(fs, LAMBDA f :
            f.type # "Polygon" \/ (DictHas(ById(<<>>, fs, "Polygon", 1), f.id) /\ f.id \notin gone))

InitDupLine ==
    /\ prInput \in PrInputs(LineKinds)
    /\ prCovers \in GeomRelations
    /\ prContains \in GeomRelations
    /\ prPc = "line"
    /\ prOut = <<>>

InitInner ==
    /\ prInput \in PrInputs(InnerKinds)
    /\ prCovers \in GeomRelations
    /\ prContains \in GeomRelations
    /\ prPc = "inner"
    /\ prOut = <<>>

IdlePrune ==
    /\ prInput = <<>>
    /\ prCovers = [p \in GeomTokens \X GeomTokens |-> FALSE]
    /\ prContains = [p \in GeomTokens \X GeomTokens |-> FALSE]
    /\ prPc = "idle"
    /\ prOut = <<>>

RemoveDuplicateLine ==
    /\ prPc = "line"
    /\ prOut' = remove_duplicate_line(prInput, prCovers, prContains)
    /\ prPc' = "done"
    /\ UNCHANGED <<prInput, prCovers, prContains>>

RemoveFeatureInInnerBoards ==
    /\ prPc = "inner"
    /\ prOut' = remove_feature_in_inner_boards(prInput, prCovers, prContains)
    /\ prPc' = "done"
    /\ UNCHANGED <<prInput, prCovers, prContains>>


(***************************************************************************)
(* ParceGeojson.split_to_grid, for a rectangle with integer coordinates    *)
(***************************************************************************)
\* numpy.arange(start, stop, step): start + i * step for the i with
\* start + i * step < stop
RECURSIVE Arange(_, _, _)
Arange(start, stop, step) ==
    IF start >= stop THEN <<>> ELSE <<start>> \o Arange(start + step, stop, step)

\* A variant of the grid lines that stops at the upper bound
GridCoordsToMax(lo, hi, cell) ==
    LET a == Arange(lo, hi, cell) IN SubSeq(a, 1, Len(a) - 1)

\* Lines 409-413: np.arange(min, max + cell_size, cell_size)[:-1]
GridCoords(lo, hi, cell) ==
    LET a == Arange(lo, hi + cell, cell) IN SubSeq(a, 1, Len(a) - 1)

\* polygon.bounds of the rectangle: (min_x, min_y, max_x, max_y)
RectBounds(r) == <<r.x, r.y, r.x + r.w, r.y + r.h>>

\* cell.intersection(polygon) for the cell at (x, y) and a rectangle: the
\* box (min_x, min_y, max_x, max_y) of the common part, which is a Polygon
\* when it has a positive width and height
CellIntersection(x, y, cell, r) ==
    LET b == RectBounds(r)
    IN  <<MaxOf({x, b[1]}), MaxOf({y, b[2]}), MinOf({x + cell, b[3]}), MinOf({y + cell, b[4]})>>

IsPolygonBox(b) == b[1] < b[3] /\ b[2] < b[4]

BoxArea(b) == (b[3] - b[1]) * (b[4] - b[2])

GridRects == [x : 0..1, y : {0}, w : 1..MaxGrid, h : 1..MaxGrid]

\* The properties of the input feature: the id array under OSM_id_nodes and
\* one more tag; every value is a list of integers
GridProps ==
    {<<>>,
     <<[k |-> "ref", v |-> <<5>>]>>,
     <<[k |-> "OSM_id_nodes", v |-> <<7, 8>>]>>,
     <<[k |-> "OSM_id_nodes", v |-> <<7, 8>>], [k |-> "ref", v |-> <<5>>]>>,
     <<[k |-> "ref", v |-> <<5>>], [k |-> "OSM_id_nodes", v |-> <<>>]>>}

\* tags.get('OSM_id_nodes') as a condition: the key is there and its list is
\* not empty
HasIdArray(tags) == DictHas(tags, "OSM_id_nodes") /\ DictGet(tags, "OSM_id_nodes") # <<>>

IdleGridTags ==
    /\ gridProps0 = <<>>
    /\ gridProps = <<>>
    /\ gridTags = <<>>

\* Lines 402-404: tags is feature.properties itself unless that is empty, so
\* the del acts on the dictionary of the input feature
GridTags ==
    /\ gridPc = "tags"
    /\ LET tags == IF HasIdArray(gridProps) THEN DictDel(gridProps, "OSM_id_nodes")
                   ELSE gridProps
       IN  /\ gridTags' = tags
           /\ gridProps' = tags
    /\ gridPc' = "cells"
    /\ UNCHANGED <<gridRect, gridCell, gridX, gridY, gridOut, gridProps0>>

InitGrid ==
    /\ gridRect \in GridRects
    /\ gridCell \in 1..MaxCell
    /\ gridX = 1
    /\ gridY = 1
    /\ gridOut = <<>>
    /\ gridPc = "tags"
    /\ gridProps0 \in GridProps
    /\ gridProps = gridProps0
    /\ gridTags = <<>>

IdleGrid ==
    /\ gridRect = [x |-> 0, y |-> 0, w |-> 1, h |-> 1]
    /\ gridCell = 1
    /\ gridX = 1
    /\ gridY = 1
    /\ gridOut = <<>>
    /\ gridPc = "idle"
    /\ IdleGridTags

\* Lines 412-470: one pass of the inner loop, for the cell at
\* (x_coords[gridX], y_coords[gridY])
GridCell ==
    /\ gridPc = "cells"
    /\ LET b == RectBounds(gridRect)
           xs == GridCoords(b[1], b[3], gridCell)
           ys == GridCoords(b[2], b[4], gridCell)
       IN  /\ gridX <= Len(xs)
           /\ gridY <= Len(ys)
           /\ LET box == CellIntersection(xs[gridX], ys[gridY], gridCell, gridRect)
              IN  gridOut' = IF IsPolygonBox(box)
                             THEN Append(gridOut, [id |-> Len(gridOut) + 1, box |-> box,
                                                   properties |-> gridTags])
                             ELSE gridOut
           /\ IF gridY < Len(ys)
              THEN gridY' = gridY + 1 /\ gridX' = gridX
              ELSE gridY' = 1 /\ gridX' = gridX + 1
    /\ UNCHANGED <<gridRect, gridCell, gridPc, gtVars>>

\* Line 472: the loops are over
GridReturn ==
    /\ gridPc = "cells"
    /\ LET b == RectBounds(gridRect)
       IN  \/ gridX > Len(GridCoords(b[1], b[3], gridCell))
           \/ Len(GridCoords(b[2], b[4], gridCell)) = 0
    /\ gridPc' = "done"
    /\ UNCHANGED <<gridRect, gridCell, gridX, gridY, gridOut, gtVars>>


(***************************************************************************)
(* Node: construction and the coordinates setter                           *)
(***************************************************************************)
\* Arguments of the calls: None or a number of degrees
LatArgs == {None} \cup {Some(v) : v \in {-91, -90, 0, 90, 91}}

LonArgs == {None} \cup {Some(v) : v \in {-181, -180, 0, 180, 181}}

\* _validate_coordinates: "ok", or the exception raised. A comparison of a
\* number with None raises TypeError.
validate_coordinates(lat, lon) ==
    IF IsNone(lat) THEN "TypeError"
    ELSE IF ~(-90 <= Val(lat) /\ Val(lat) <= 90) THEN "ValueError"
    ELSE IF IsNone(lon) THEN "TypeError"
    ELSE IF ~(-180 <= Val(lon) /\ Val(lon) <= 180) THEN "ValueError"
    ELSE "ok"

\* Line 44: `if lat is not None and lat is not None`
HasCoordinates(lat, lon) == ~IsNone(lat) /\ ~IsNone(lat)

InitCoord ==
    /\ ndMade = FALSE
    /\ ndLat = None
    /\ ndLon = None
    /\ ndLast = [op |-> "none", lat |-> None, lon |-> None, result |-> "ok",
                 oldLat |-> None, oldLon |-> None]

IdleCoord ==
    /\ ndMade = FALSE
    /\ ndLat = None
    /\ ndLon = None
    /\ ndLast = [op |-> "idle", lat |-> None, lon |-> None, result |-> "ok",
                 oldLat |-> None, oldLon |-> None]

\* Node(node_id, lat, lon)
NodeInit(lat, lon) ==
    LET res == IF HasCoordinates(lat, lon) THEN validate_coordinates(lat, lon) ELSE "ok"
    IN  /\ ~ndMade
        /\ ndMade' = (res = "ok")
        /\ ndLat' = IF res = "ok" /\ HasCoordinates(lat, lon) THEN lat ELSE None
        /\ ndLon' = IF res = "ok" /\ HasCoordinates(lat, lon) THEN lon ELSE None
        /\ ndLast' = [op |-> "init", lat |-> lat, lon |-> lon, result |-> res,
                      oldLat |-> None, oldLon |-> None]

\* node.coordinates = (lat, lon)
SetCoordinates(lat, lon) ==
    LET res == validate_coordinates(lat, lon)
    IN  /\ ndMade
        /\ ndLat' = IF res = "ok" THEN lat ELSE ndLat
        /\ ndLon' = IF res = "ok" THEN lon ELSE ndLon
        /\ ndLast' = [op |-> "set", lat |-> lat, lon |-> lon, result |-> res,
                      oldLat |-> ndLat, oldLon |-> ndLon]
        /\ UNCHANGED ndMade


(***************************************************************************)
(* WayCollector and AreaCollector: insertion, removal, bounding-box query  *)
(***************************************************************************)
\* An object is a Way or an Area with an id and a node list; its bounding box
\* is the one its constructor computes from the nodes
EntityKinds ==
    {[type |-> "Way", id |-> i, nodes |-> ns] : i \in 1..2, ns \in {<<>>, <<1, 2>>, <<3>>}}
        \cup {[type |-> "Area", id |-> 1, nodes |-> ns] : ns \in {<<>>, <<1, 2, 1>>}}

EntityBBox(e) == IF e.nodes = <<>> THEN NoBBox ELSE BBoxOf(e.nodes)

\* Query rectangles
QueryPool ==
    {[min_lat |-> -5, min_lon |-> -5, max_lat |-> 5, max_lon |-> 10],
     [min_lat |-> -15, min_lon |-> 0, max_lat |-> -15, max_lon |-> 5],
     [min_lat |-> -90, min_lon |-> -180, max_lat |-> 90, max_lon |-> 180]}

NoQuery == [min_lat |-> 0, min_lon |-> 0, max_lat |-> 0, max_lon |-> 0]

LcCall(op, obj, q, err, val, old, size) ==
    [op |-> op, obj |-> obj, q |-> q, err |-> err, val |-> val, old |-> old, size |-> size]

\* Node.add_way for every node of a new way: `if way not in self._ways`,
\* where ways are equal when their ids are
RECURSIVE LcLink(_, _, _, _, _)
LcLink(nw, objs, ns, o, i) ==
    IF i > Len(ns) THEN nw
    ELSE LcLink(IF \E k \in 1..Len(nw[ns[i]]) : objs[nw[ns[i]][k]].id = objs[o].id
                THEN nw ELSE [nw EXCEPT ![ns[i]] = Append(@, o)], objs, ns, o, i + 1)

\* node.remove_way(way) for every node of the way: list.remove of the first
\* equal way
RemoveFirstId(ws, objs, id) ==
    LET hits == {k \in 1..Len(ws) : objs[ws[k]].id = id}
    IN  IF hits = {} THEN ws
        ELSE [k \in 1..(Len(ws) - 1) |-> IF k < MinOf(hits) THEN ws[k] ELSE ws[k + 1]]

RECURSIVE LcUnlink(_, _, _, _, _)
LcUnlink(nw, objs, ns, id, i) ==
    IF i > Len(ns) THEN nw
    ELSE LcUnlink([nw EXCEPT ![ns[i]] = RemoveFirstId(@, objs, id)], objs, ns, id, i + 1)

\* A variant of add_way that keeps the way already stored under the id
add_way_keep(ways, objs, o) ==
    IF DictHas(ways, objs[o].id) THEN ways ELSE DictPut(ways, objs[o].id, o)

\* WayCollector.add_way, line 45: self._ways[way.id] = way
add_way(ways, objs, o) == DictPut(ways, objs[o].id, o)

\* The overlap test of the two queries; a comparison with None raises
OverlapRaises(bb) == IsNone(bb.min_lat)

Overlaps(bb, q) ==
    /\ Val(bb.min_lat) <= q.max_lat
    /\ Val(bb.max_lat) >= q.min_lat
    /\ Val(bb.min_lon) <= q.max_lon
    /\ Val(bb.max_lon) >= q.min_lon

\* get_ways_by_bounding_box / get_areas_by_bounding_box: the loop over the
\* dictionary from entry i on, with the result built so far
RECURSIVE ByBoundingBox(_, _, _, _, _)
ByBoundingBox(res, reg, objs, q, i) ==
    IF i > Len(reg) THEN [err |-> "None", val |-> res]
    ELSE IF OverlapRaises(EntityBBox(objs[reg[i].v])) THEN [err |-> "TypeError", val |-> <<>>]
    ELSE ByBoundingBox(IF Overlaps(EntityBBox(objs[reg[i].v]), q)
                       THEN DictPut(res, objs[reg[i].v].id, reg[i].v) ELSE res,
                       reg, objs, q, i + 1)

InitColl ==
    /\ lcObjs = <<>>
    /\ lcNodeWays = [n \in Nodes |-> <<>>]
    /\ lcWays = <<>>
    /\ lcAreas = <<>>
    /\ lcLive = {}
    /\ lcLast = LcCall("none", 0, NoQuery, "None", <<>>, 0, 0)

IdleColl ==
    /\ lcObjs = <<>>
    /\ lcNodeWays = [n \in Nodes |-> <<>>]
    /\ lcWays = <<>>
    /\ lcAreas = <<>>
    /\ lcLive = {}
    /\ lcLast = LcCall("idle", 0, NoQuery, "None", <<>>, 0, 0)

\* Way(id, nodes=ns) or Area(id, outer_border=ns)
LcMake(e) ==
    /\ Len(lcObjs) < MaxEntity
    /\ lcObjs' = Append(lcObjs, e)
    /\ lcNodeWays' = IF e.type = "Way"
                     THEN LcLink(lcNodeWays, lcObjs', e.nodes, Len(lcObjs'), 1)
                     ELSE lcNodeWays
    /\ lcLast' = LcCall("make", Len(lcObjs'), NoQuery, "None", <<>>, 0, 0)
    /\ UNCHANGED <<lcWays, lcAreas, lcLive>>

\* WayCollector.add_way(lcObjs[o])
LcAddWay(o) ==
    /\ o \in 1..Len(lcObjs)
    /\ LET old == IF DictHas(lcWays, lcObjs[o].id) THEN DictGet(lcWays, lcObjs[o].id) ELSE 0
       IN  IF lcObjs[o].type # "Way"
           THEN /\ lcLast' = LcCall("add_way", o, NoQuery, "TypeError", <<>>, old, Len(lcWays))
                /\ UNCHANGED <<lcWays, lcLive>>
           ELSE /\ lcWays' = add_way(lcWays, lcObjs, o)
                /\ lcLive' = lcLive \cup {lcObjs[o].id}
                /\ lcLast' = LcCall("add_way", o, NoQuery, "None", <<>>, old, Len(lcWays))
    /\ UNCHANGED <<lcObjs, lcNodeWays, lcAreas>>

\* WayCollector.remove_way(id)
LcRemoveWay(id) ==
    /\ IF DictHas(lcWays, id)
       THEN /\ lcNodeWays' = LcUnlink(lcNodeWays, lcObjs, lcObjs[DictGet(lcWays, id)].nodes, id, 1)
            /\ lcWays' = DictDel(lcWays, id)
            /\ lcLast' = LcCall("remove_way", 0, NoQuery, "None", <<TRUE>>, DictGet(lcWays, id), Len(lcWays))
       ELSE /\ UNCHANGED <<lcNodeWays, lcWays>>
            /\ lcLast' = LcCall("remove_way", 0, NoQuery, "None", <<FALSE>>, 0, Len(lcWays))
    /\ lcLive' = lcLive \ {id}
    /\ UNCHANGED <<lcObjs, lcAreas>>

\* AreaCollector.add_area(lcObjs[o])
LcAddArea(o) ==
    /\ o \in 1..Len(lcObjs)
    /\ LET old == IF DictHas(lcAreas, lcObjs[o].id) THEN DictGet(lcAreas, lcObjs[o].id) ELSE 0
       IN  IF lcObjs[o].type # "Area"
           THEN /\ lcLast' = LcCall("add_area", o, NoQuery, "TypeError", <<>>, old, Len(lcAreas))
                /\ UNCHANGED lcAreas
           ELSE /\ lcAreas' = DictPut(lcAreas, lcObjs[o].id, o)
                /\ lcLast' = LcCall("add_area", o, NoQuery, "None", <<>>, old, Len(lcAreas))
    /\ UNCHANGED <<lcObjs, lcNodeWays, lcWays, lcLive>>

\* WayCollector.get_ways_by_bounding_box(q)
LcWaysByBoundingBox(q) ==
    /\ LET r == ByBoundingBox(<<>>, lcWays, lcObjs, q, 1)
       IN  lcLast' = LcCall("get_ways_by_bounding_box", 0, q, r.err, r.val, 0, Len(lcWays))
    /\ UNCHANGED <<lcObjs, lcNodeWays, lcWays, lcAreas, lcLive>>

\* AreaCollector.get_areas_by_bounding_box(q)
LcAreasByBoundingBox(q) ==
    /\ LET r == ByBoundingBox(<<>>, lcAreas, lcObjs, q, 1)
       IN  lcLast' = LcCall("get_areas_by_bounding_box", 0, q, r.err, r.val, 0, Len(lcAreas))
    /\ UNCHANGED <<lcObjs, lcNodeWays, lcWays, lcAreas, lcLive>>


(***************************************************************************)
(* IOPs_geojson.fast_read_json                                             *)
(***************************************************************************)
\* geometry.bounds of a shapely geometry over coordinate lists of
\* (lon, lat) pairs: (min_x, min_y, max_x, max_y)
GeomBounds(rings) ==
    LET pts == {rings[i][j] : <<i, j>> \in {p \in (1..Len(rings)) \X (1..MaxIoNode + 1) :
                                                p[2] <= Len(rings[p[1]])}}
    IN  [min_lat |-> Some(MinOf({p[2] : p \in pts})), max_lat |-> Some(MaxOf({p[2] : p \in pts})),
         min_lon |-> Some(MinOf({p[1] : p \in pts})), max_lon |-> Some(MaxOf({p[1] : p \in pts}))]

\* Way(way_id=id) / Area(area_id=id): no nodes, no bounding box, no geometry
\* object; other holds attributes set on the instance that the class does
\* not define
NewEntity(id) == [id |-> id, nodes |-> <<>>, shapely |-> None, bbox |-> NoBBox, other |-> None]

\* The setters Way.shapely_line and Area.shapely_polygon: the object is
\* stored and the bounding box is taken from its bounds
SetShapely(e, rings) == [e EXCEPT !.shapely = Some(rings), !.bbox = GeomBounds(rings)]

\* `way.shapely_line_string = LineString(coordinates)`: the class has no
\* such property, the assignment makes a plain attribute
SetAttribute(e, rings) == [e EXCEPT !.other = Some(rings)]

\* The getter Way.shapely_line: raises ValueError when _shapely_line is None
Way_shapely_line(e) ==
    IF IsNone(e.shapely) THEN [err |-> "ValueError", val |-> None]
    ELSE [err |-> "None", val |-> e.shapely]

\* The getter Area.shapely_polygon
Area_shapely_polygon(e) == [err |-> "None", val |-> e.shapely]

InitFast ==
    /\ frFile \in IoReadFiles
    /\ frIdx = 1
    /\ frNodes = <<>>
    /\ frWays = <<>>
    /\ frAreas = <<>>
    /\ frPc = "read"

IdleFast ==
    /\ frFile = <<>>
    /\ frIdx = 1
    /\ frNodes = <<>>
    /\ frWays = <<>>
    /\ frAreas = <<>>
    /\ frPc = "idle"

\* Lines 357-374: one feature of the file
FastReadFeature ==
    /\ frPc = "read"
    /\ frIdx <= Len(frFile)
    /\ LET f == frFile[frIdx]
       IN  CASE f.type = "LineString" ->
                  /\ frWays' = DictPut(frWays, f.id, SetAttribute(NewEntity(f.id), f.coords))
                  /\ UNCHANGED frAreas
             [] f.type = "Polygon" ->
                  /\ frAreas' = DictPut(frAreas, f.id, SetShapely(NewEntity(f.id), f.coords))
                  /\ UNCHANGED frWays
             [] OTHER -> UNCHANGED <<frWays, frAreas>>
    /\ frIdx' = frIdx + 1
    /\ UNCHANGED <<frFile, frNodes, frPc>>

\* Line 382: the three collectors are returned
FastReadDone ==
    /\ frPc = "read"
    /\ frIdx > Len(frFile)
    /\ frPc' = "done"
    /\ UNCHANGED <<frFile, frIdx, frNodes, frWays, frAreas>>


(***************************************************************************)
(* Way.add_neighbor_way and Way.set_neighbor_way                           *)
(***************************************************************************)
NwWays == {1, 2, 3}

\* `way.id in self._neighbor_ways`: the keys of the dictionary are Way
\* objects and way.id is an int; a Way is equal to Way objects only
\* (Way.__eq__), so no key is ever equal to the int
IdInNeighborWays(map, way) == FALSE

\* Way.add_neighbor_way(way, shared_node), for a node of both ways
add_neighbor_way(map, way, node) ==
    IF IdInNeighborWays(map, way)
    THEN DictPut(map, way, Append(DictGet(map, way), node))
    ELSE DictPut(map, way, <<node>>)

\* Way.set_neighbor_way, the loops: node i of the way, way j of that node
RECURSIVE NeighborWaysFrom(_, _, _, _, _, _)
NeighborWaysFrom(map, self, ns, nw, i, j) ==
    IF i > Len(ns) THEN map
    ELSE IF j > Len(nw[ns[i]]) THEN NeighborWaysFrom(map, self, ns, nw, i + 1, 1)
    ELSE NeighborWaysFrom(IF nw[ns[i]][j] # self
                          THEN add_neighbor_way(map, nw[ns[i]][j], ns[i]) ELSE map,
                          self, ns, nw, i, j + 1)

\* The ways 1, 2, 3 built in this order by Way(id, nodes=...)
InitNw ==
    /\ nwWayNodes \in [NwWays -> SeqsOf(Nodes, 0, MaxRegWayLen)]
    /\ nwNodeWays = AddWayToAll(AddWayToAll(AddWayToAll([n \in Nodes |-> <<>>],
                        nwWayNodes[1], 1, 1), nwWayNodes[2], 2, 1), nwWayNodes[3], 3, 1)
    /\ nwMap = [w \in NwWays |-> <<>>]
    /\ nwLast = 0

IdleNw ==
    /\ nwWayNodes = [w \in NwWays |-> <<>>]
    /\ nwNodeWays = [n \in Nodes |-> <<>>]
    /\ nwMap = [w \in NwWays |-> <<>>]
    /\ nwLast = -1

\* way.set_neighbor_way()
SetNeighborWay(w) ==
    /\ nwLast >= 0
    /\ nwMap' = [nwMap EXCEPT ![w] = NeighborWaysFrom(<<>>, w, nwWayNodes[w], nwNodeWays, 1, 1)]
    /\ nwLast' = w
    /\ UNCHANGED <<nwWayNodes, nwNodeWays>>


(***************************************************************************)
(* NodeCollector.clear_isolated_nodes                                      *)
(***************************************************************************)
\* Node.is_isolated_neighbors: not self._neighbors
is_isolated_neighbors(n) == ciNeighbors[n] = <<>>

\* Node.is_isolated_ways: not self._ways
is_isolated_ways(n) == ciWays[n] = <<>>

\* Node.is_connected
is_connected(n) == ~(is_isolated_neighbors(n) /\ is_isolated_ways(n))

\* NodeCollector.clear_isolated_nodes: each comprehension keeps the nodes
\* its condition holds for
clear_isolated_nodes(nodes, from_isolated_neighbors, from_isolated_ways) ==
    LET a == IF from_isolated_neighbors
             THEN {n \in nodes : is_isolated_neighbors(n)} ELSE nodes
        b == IF from_isolated_ways THEN {n \in a : is_isolated_ways(n)} ELSE a
    IN  IF ~from_isolated_neighbors /\ ~from_isolated_ways
        THEN {n \in b : ~is_connected(n)} ELSE b

\* The unordered pairs of nodes that add_neighbor has linked
NodePairs == {p \in SUBSET Nodes : Cardinality(p) = 2}

\* All nodes registered; neighbors linked both ways by add_neighbor; every
\* node in at most one way
InitIso ==
    /\ ciNodes = Nodes
    /\ \E E \in SUBSET NodePairs :
          ciNeighbors = [n \in Nodes |->
                            SelectSeq([i \in 1..MaxNode |-> i], LAMBDA m : {n, m} \in E)]
    /\ ciWays \in [Nodes -> {<<>>, <<1>>}]
    /\ ciBefore = Nodes
    /\ ciLast = [op |-> "none", neighbors |-> FALSE, ways |-> FALSE]

IdleIso ==
    /\ ciNodes = {}
    /\ ciNeighbors = [n \in Nodes |-> <<>>]
    /\ ciWays = [n \in Nodes |-> <<>>]
    /\ ciBefore = {}
    /\ ciLast = [op |-> "idle", neighbors |-> FALSE, ways |-> FALSE]

\* node_collector.clear_isolated_nodes(fn, fw)
ClearIsolatedNodes(fn, fw) ==
    /\ ciLast.op # "idle"
    /\ ciBefore' = ciNodes
    /\ ciNodes' = clear_isolated_nodes(ciNodes, fn, fw)
    /\ ciLast' = [op |-> "clear_isolated_nodes", neighbors |-> fn, ways |-> fw]
    /\ UNCHANGED <<ciNeighbors, ciWays>>




IdleExt == IdleIO /\ IdlePrune /\ IdleGrid /\ IdleCoord /\ IdleColl /\ IdleFast /\ IdleNw /\ IdleIso

(***************************************************************************)
(* Specifications                                                          *)
(***************************************************************************)
NextNeighbors ==
    \/ \E a \in Nodes, b \in Nodes : AddNeighbor(a, b) /\ UNCHANGED <<wayVars, areaVars, regVars, mergeVars>>
    \/ \E a \in Nodes, b \in Nodes : RemoveNeighbor(a, b) /\ UNCHANGED <<wayVars, areaVars, regVars, mergeVars>>
    \/ \E a \in Nodes : ClearNeighbors(a) /\ UNCHANGED <<wayVars, areaVars, regVars, mergeVars>>

InitGraph == InitNeighbors /\ InitWay /\ InitArea /\ InitRegistry

InitAll == InitGraph /\ IdleChain /\ IdleConcat /\ IdleDedup /\ IdleExt

SpecNeighbors == InitAll /\ [][NextNeighbors]_vars

NextWay ==
    \/ \E w \in WayIds, ns \in SeqsOf(WayNodeIds, 0, MaxWayLen) : WayInit(w, ns) /\ UNCHANGED <<nbVars, areaVars, regVars, mergeVars>>
    \/ \E w \in WayIds, n \in WayNodeIds : WayAddNode(w, n) /\ UNCHANGED <<nbVars, areaVars, regVars, mergeVars>>
    \/ \E w \in WayIds, n \in WayNodeIds : WayRemoveNode(w, n) /\ UNCHANGED <<nbVars, areaVars, regVars, mergeVars>>
    \/ \E w \in WayIds : WayClearNodes(w) /\ UNCHANGED <<nbVars, areaVars, regVars, mergeVars>>
    \/ \E n \in WayNodeIds : NodeClearWays(n) /\ UNCHANGED <<nbVars, areaVars, regVars, mergeVars>>

SpecWay == InitAll /\ [][NextWay]_vars

\* The calls on Way objects alone
NextWayOnly ==
    \/ \E w \in WayIds, ns \in SeqsOf(WayNodeIds, 0, MaxWayLen) : WayInit(w, ns) /\ UNCHANGED <<nbVars, areaVars, regVars, mergeVars>>
    \/ \E w \in WayIds, n \in WayNodeIds : WayAddNode(w, n) /\ UNCHANGED <<nbVars, areaVars, regVars, mergeVars>>
    \/ \E w \in WayIds, n \in WayNodeIds : WayRemoveNode(w, n) /\ UNCHANGED <<nbVars, areaVars, regVars, mergeVars>>
    \/ \E w \in WayIds : WayClearNodes(w) /\ UNCHANGED <<nbVars, areaVars, regVars, mergeVars>>

SpecWayOnly == InitAll /\ [][NextWayOnly]_vars

NextArea ==
    \/ \E a \in BorderAreaIds, outer \in RingPool, inner \in SeqsOf(RingPool, 0, MaxInner) :
          AreaInit(a, outer, inner) /\ UNCHANGED <<nbVars, wayVars, regVars, mergeVars>>
    \/ \E a \in BorderAreaIds, border \in RingPool :
          AreaSetOuterBorder(a, border) /\ UNCHANGED <<nbVars, wayVars, regVars, mergeVars>>
    \/ \E a \in BorderAreaIds, border \in RingPool :
          AreaAssignOuterBorder(a, border) /\ UNCHANGED <<nbVars, wayVars, regVars, mergeVars>>
    \/ \E a \in BorderAreaIds :
          AreaRemoveOuterBorder(a) /\ UNCHANGED <<nbVars, wayVars, regVars, mergeVars>>
    \/ \E a \in BorderAreaIds, border \in RingPool :
          AreaAddInnerBorder(a, border) /\ UNCHANGED <<nbVars, wayVars, regVars, mergeVars>>
    \/ \E a \in BorderAreaIds, border \in RingPool :
          AreaRemoveInnerBorder(a, border) /\ UNCHANGED <<nbVars, wayVars, regVars, mergeVars>>
    \/ \E a \in BorderAreaIds :
          AreaClearInnerBorders(a) /\ UNCHANGED <<nbVars, wayVars, regVars, mergeVars>>
    \/ \E a \in BorderAreaIds, borders \in SeqsOf(RingPool, 0, MaxInner) :
          AreaAssignInnerBorders(a, borders) /\ UNCHANGED <<nbVars, wayVars, regVars, mergeVars>>

SpecArea == InitAll /\ [][NextArea]_vars

\* Area construction and the border calls, without the inner_borders property
NextAreaRings ==
    \/ \E a \in BorderAreaIds, outer \in RingPool, inner \in SeqsOf(RingPool, 0, MaxInner) :
          AreaInit(a, outer, inner) /\ UNCHANGED <<nbVars, wayVars, regVars, mergeVars>>
    \/ \E a \in BorderAreaIds, border \in RingPool :
          AreaSetOuterBorder(a, border) /\ UNCHANGED <<nbVars, wayVars, regVars, mergeVars>>
    \/ \E a \in BorderAreaIds, border \in RingPool :
          AreaAssignOuterBorder(a, border) /\ UNCHANGED <<nbVars, wayVars, regVars, mergeVars>>
    \/ \E a \in BorderAreaIds :
          AreaRemoveOuterBorder(a) /\ UNCHANGED <<nbVars, wayVars, regVars, mergeVars>>
    \/ \E a \in BorderAreaIds, border \in RingPool :
          AreaAddInnerBorder(a, border) /\ UNCHANGED <<nbVars, wayVars, regVars, mergeVars>>
    \/ \E a \in BorderAreaIds, border \in RingPool :
          AreaRemoveInnerBorder(a, border) /\ UNCHANGED <<nbVars, wayVars, regVars, mergeVars>>
    \/ \E a \in BorderAreaIds :
          AreaClearInnerBorders(a) /\ UNCHANGED <<nbVars, wayVars, regVars, mergeVars>>

SpecAreaRings == InitAll /\ [][NextAreaRings]_vars

graphVars == <<nbVars, wayVars, areaVars, regVars>>

InitChainAll == InitGraph /\ InitChain /\ IdleConcat /\ IdleDedup /\ IdleExt

NextChain ==
    \/ ChainStart /\ UNCHANGED <<graphVars, catVars, ddVars, extVars>>
    \/ ChainMerge /\ UNCHANGED <<graphVars, catVars, ddVars, extVars>>
    \/ ChainFinish /\ UNCHANGED <<graphVars, catVars, ddVars, extVars>>

SpecChain == InitChainAll /\ [][NextChain]_vars

\* The call runs on as long as it has a step to take. The features are
\* numbered by their position, which is the order the pool is scanned in.
InitChainFairAll ==
    /\ InitGraph /\ IdleConcat /\ IdleDedup /\ IdleExt
    /\ chainInput \in {q \in ChainPools : \A i \in 1..Len(q) : q[i].id = i}
    /\ chainGiven = chainInput
    /\ chainStart \in 1..MaxPool
    /\ dictLine = <<>>
    /\ resultLine = <<>>
    /\ resultLineIds = <<>>
    /\ chainPc = "start"
    /\ chainOut = <<>>

SpecChainFair == InitChainFairAll /\ [][NextChain]_vars /\ WF_vars(NextChain)

InitConcatAll == InitGraph /\ IdleChain /\ InitConcat /\ IdleDedup /\ IdleExt

NextConcat ==
    \/ ConcatStep /\ UNCHANGED <<graphVars, chainVars, ddVars, extVars>>
    \/ RekeyWay /\ UNCHANGED <<graphVars, chainVars, ddVars, extVars>>
    \/ RekeyArea /\ UNCHANGED <<graphVars, chainVars, ddVars, extVars>>
    \/ ConcatFinish /\ UNCHANGED <<graphVars, chainVars, ddVars, extVars>>

SpecConcat == InitConcatAll /\ [][NextConcat]_vars

InitDedupAll == InitGraph /\ IdleChain /\ IdleConcat /\ InitDedup /\ IdleExt

NextDedup ==
    \/ DedupCanon /\ UNCHANGED <<graphVars, chainVars, catVars, extVars>>
    \/ DedupCanonEnd /\ UNCHANGED <<graphVars, chainVars, catVars, extVars>>
    \/ DedupBuild /\ UNCHANGED <<graphVars, chainVars, catVars, extVars>>
    \/ DedupWrite /\ UNCHANGED <<graphVars, chainVars, catVars, extVars>>

SpecDedup == InitDedupAll /\ [][NextDedup]_vars

InitIOAll == InitGraph /\ IdleChain /\ IdleConcat /\ IdleDedup /\ InitIO /\ IdlePrune /\ IdleGrid /\ IdleCoord /\ IdleColl /\ IdleFast /\ IdleNw /\ IdleIso

NextIO ==
    \/ IoWrite /\ UNCHANGED <<graphVars, chainVars, catVars, ddVars, prVars, gridVars, coordVars, collVars, frVars, nwVars, ciVars, gtVars>>
    \/ IoReadFeature /\ UNCHANGED <<graphVars, chainVars, catVars, ddVars, prVars, gridVars, coordVars, collVars, frVars, nwVars, ciVars, gtVars>>
    \/ IoReadDone /\ UNCHANGED <<graphVars, chainVars, catVars, ddVars, prVars, gridVars, coordVars, collVars, frVars, nwVars, ciVars, gtVars>>

SpecIO == InitIOAll /\ [][NextIO]_vars

InitDupLineAll == InitGraph /\ IdleChain /\ IdleConcat /\ IdleDedup /\ IdleIO /\ InitDupLine /\ IdleGrid /\ IdleCoord /\ IdleColl /\ IdleFast /\ IdleNw /\ IdleIso

NextDupLine == RemoveDuplicateLine /\ UNCHANGED <<graphVars, chainVars, catVars, ddVars, ioVars, gridVars, coordVars, collVars, frVars, nwVars, ciVars, gtVars>>

SpecDupLine == InitDupLineAll /\ [][NextDupLine]_vars

InitInnerAll == InitGraph /\ IdleChain /\ IdleConcat /\ IdleDedup /\ IdleIO /\ InitInner /\ IdleGrid /\ IdleCoord /\ IdleColl /\ IdleFast /\ IdleNw /\ IdleIso

NextInner == RemoveFeatureInInnerBoards /\ UNCHANGED <<graphVars, chainVars, catVars, ddVars, ioVars, gridVars, coordVars, collVars, frVars, nwVars, ciVars, gtVars>>

SpecInner == InitInnerAll /\ [][NextInner]_vars

InitGridAll == InitGraph /\ IdleChain /\ IdleConcat /\ IdleDedup /\ IdleIO /\ IdlePrune /\ InitGrid /\ IdleCoord /\ IdleColl /\ IdleFast /\ IdleNw /\ IdleIso

GridRest == UNCHANGED <<graphVars, chainVars, catVars, ddVars, ioVars, prVars, coordVars, collVars, frVars, nwVars, ciVars>>

NextGrid ==
    \/ GridTags /\ GridRest
    \/ GridCell /\ GridRest
    \/ GridReturn /\ GridRest

SpecGrid == InitGridAll /\ [][NextGrid]_vars

InitCoordAll ==
    InitGraph /\ IdleChain /\ IdleConcat /\ IdleDedup /\ IdleIO /\ IdlePrune /\ IdleGrid /\ InitCoord /\ IdleColl /\ IdleFast /\ IdleNw /\ IdleIso

CoordRest == UNCHANGED <<graphVars, chainVars, catVars, ddVars, ioVars, prVars, gridVars, collVars, frVars, nwVars, ciVars, gtVars>>

NextCoord ==
    \/ \E lat \in LatArgs, lon \in LonArgs : NodeInit(lat, lon) /\ CoordRest
    \/ \E lat \in LatArgs, lon \in LonArgs : SetCoordinates(lat, lon) /\ CoordRest

SpecCoord == InitCoordAll /\ [][NextCoord]_vars

InitCollAll ==
    InitGraph /\ IdleChain /\ IdleConcat /\ IdleDedup /\ IdleIO /\ IdlePrune /\ IdleGrid /\ IdleCoord /\ InitColl /\ IdleFast /\ IdleNw /\ IdleIso

CollRest == UNCHANGED <<graphVars, chainVars, catVars, ddVars, ioVars, prVars, gridVars, coordVars, frVars, nwVars, ciVars, gtVars>>

NextColl ==
    \/ \E e \in EntityKinds : LcMake(e) /\ CollRest
    \/ \E o \in 1..MaxEntity : LcAddWay(o) /\ CollRest
    \/ \E id \in 1..2 : LcRemoveWay(id) /\ CollRest
    \/ \E o \in 1..MaxEntity : LcAddArea(o) /\ CollRest
    \/ \E q \in QueryPool : LcWaysByBoundingBox(q) /\ CollRest
    \/ \E q \in QueryPool : LcAreasByBoundingBox(q) /\ CollRest

SpecColl == InitCollAll /\ [][NextColl]_vars

InitFastAll ==
    InitGraph /\ IdleChain /\ IdleConcat /\ IdleDedup /\ IdleIO /\ IdlePrune /\ IdleGrid /\ IdleCoord /\ IdleColl /\ InitFast /\ IdleNw /\ IdleIso

FastRest == UNCHANGED <<graphVars, chainVars, catVars, ddVars, ioVars, prVars, gridVars, coordVars, collVars, nwVars, ciVars, gtVars>>

NextFast ==
    \/ FastReadFeature /\ FastRest
    \/ FastReadDone /\ FastRest

SpecFast == InitFastAll /\ [][NextFast]_vars

InitNwAll ==
    InitGraph /\ IdleChain /\ IdleConcat /\ IdleDedup /\ IdleIO /\ IdlePrune /\ IdleGrid /\ IdleCoord /\ IdleColl /\ IdleFast /\ InitNw /\ IdleIso

NextNw == \E w \in NwWays : SetNeighborWay(w) /\ UNCHANGED <<graphVars, chainVars, catVars, ddVars, ioVars, prVars, gridVars, coordVars, collVars, frVars, ciVars, gtVars>>

SpecNw == InitNwAll /\ [][NextNw]_vars

InitIsoAll ==
    InitGraph /\ IdleChain /\ IdleConcat /\ IdleDedup /\ IdleIO /\ IdlePrune /\ IdleGrid /\ IdleCoord /\ IdleColl /\ IdleFast /\ IdleNw /\ InitIso

NextIso == \E fn \in BOOLEAN, fw \in BOOLEAN : ClearIsolatedNodes(fn, fw) /\ UNCHANGED <<graphVars, chainVars, catVars, ddVars, ioVars, prVars, gridVars, coordVars, collVars, frVars, nwVars, gtVars>>

SpecIso == InitIsoAll /\ [][NextIso]_vars

\* The border methods of one area, without the outer_border property
NextAreaBorders ==
    \/ \E a \in BorderAreaIds, outer \in RingPool, inner \in SeqsOf(RingPool, 0, MaxInner) :
          AreaInit(a, outer, inner) /\ UNCHANGED <<nbVars, wayVars, regVars, mergeVars>>
    \/ \E a \in BorderAreaIds, border \in RingPool :
          AreaSetOuterBorder(a, border) /\ UNCHANGED <<nbVars, wayVars, regVars, mergeVars>>
    \/ \E a \in BorderAreaIds :
          AreaRemoveOuterBorder(a) /\ UNCHANGED <<nbVars, wayVars, regVars, mergeVars>>
    \/ \E a \in BorderAreaIds, border \in RingPool :
          AreaAddInnerBorder(a, border) /\ UNCHANGED <<nbVars, wayVars, regVars, mergeVars>>
    \/ \E a \in BorderAreaIds, border \in RingPool :
          AreaRemoveInnerBorder(a, border) /\ UNCHANGED <<nbVars, wayVars, regVars, mergeVars>>
    \/ \E a \in BorderAreaIds :
          AreaClearInnerBorders(a) /\ UNCHANGED <<nbVars, wayVars, regVars, mergeVars>>

SpecAreaBorders == InitAll /\ [][NextAreaBorders]_vars

\* A registry scenario: entities are built and linked, then put into and
\* taken out of the collectors; every call counts against MaxRegOps.
NextRegistry ==
    \/ \E w \in WayIds, ns \in SeqsOf(Nodes, 1, MaxRegWayLen) :
          RegLink /\ WayInit(w, ns) /\ UNCHANGED <<nbVars, areaVars, nodeReg, wayReg, areaReg, mergeVars>>
    \/ \E a \in Nodes, b \in Nodes :
          RegLink /\ a # b /\ AddNeighbor(a, b)
             /\ UNCHANGED <<wayVars, areaVars, nodeReg, wayReg, areaReg, mergeVars>>
    \/ \E a \in AreaIds, outer \in RingPool :
          RegLink /\ AreaInit(a, outer, <<>>)
             /\ UNCHANGED <<nbVars, wayVars, nodeReg, wayReg, areaReg, mergeVars>>
    \/ \E n \in Nodes, a \in AreaIds :
          RegLink /\ Contains(areaOuter[a], n) /\ NodeAddArea(n, a)
             /\ UNCHANGED <<nbVars, wayVars, nodeReg, wayReg, areaReg, mergeVars>>
    \/ \E n \in Nodes : RegAddNode(n) /\ UNCHANGED <<nbVars, wayVars, areaVars, mergeVars>>
    \/ \E n \in Nodes : RegRemoveNode(n) /\ UNCHANGED <<nbVars, wayVars, areaVars, mergeVars>>
    \/ \E w \in WayIds : RegAddWay(w) /\ UNCHANGED <<nbVars, wayVars, areaVars, mergeVars>>
    \/ \E w \in WayIds :
          RegRemoveWay(w) /\ UNCHANGED <<nbVars, wayMade, wayNodes, wayBBox, wayLast, areaVars, mergeVars>>
    \/ \E a \in AreaIds : RegAddArea(a) /\ UNCHANGED <<nbVars, wayVars, areaVars, mergeVars>>
    \/ \E a \in AreaIds : RegRemoveArea(a) /\ UNCHANGED <<nbVars, wayVars, areaVars, mergeVars>>
    \/ RegClearNodes /\ UNCHANGED <<nbVars, wayVars, areaVars, mergeVars>>
    \/ \E old \in AreaIds, new \in AreaIds :
          RegReplaceArea(old, new) /\ UNCHANGED <<nbVars, wayVars, areaVars, mergeVars>>
    \/ RegCleanAreas /\ UNCHANGED <<nbVars, wayVars, areaVars, mergeVars>>

SpecRegistry == InitAll /\ [][NextRegistry]_vars

(***************************************************************************)
(* Claims                                                                  *)
(***************************************************************************)
IsNeighbor(a, b) == Contains(neighbors[a], b)

\* C6: after any sequence of add_neighbor, remove_neighbor and
\* clear_neighbors the neighbor relation is symmetric; right after
\* add_neighbor(A,B) (A and B distinct nodes) each lists the other, and right
\* after remove_neighbor(A,B) neither lists the other.
C6_NeighborSymmetry ==
    /\ \A a \in Nodes, b \in Nodes : IsNeighbor(a, b) <=> IsNeighbor(b, a)
    /\ (nbLast.op = "add_neighbor" /\ nbLast.ret = "None")
          => (IsNeighbor(nbLast.a, nbLast.b) /\ IsNeighbor(nbLast.b, nbLast.a))
    /\ nbLast.op = "remove_neighbor"
          => (~IsNeighbor(nbLast.a, nbLast.b) /\ ~IsNeighbor(nbLast.b, nbLast.a))

\* C6 witness: a remove_neighbor that did remove an edge while another edge
\* of the same node is still in place.
C6_Witness ==
    /\ nbLast.op = "remove_neighbor"
    /\ nbLast.ret = "True"
    /\ neighbors[nbLast.a] # <<>>

OwnsWay(n, w) == Contains(nodeWays[n], w)

\* C7: after any sequence of Way construction, add_node, remove_node and
\* clear_nodes, a node occurs in a way's node list iff the way is in the
\* node's way list (closed ways that repeat a node included).
C7_MembershipSymmetry ==
    \A w \in wayMade, n \in Nodes : Contains(wayNodes[w], n) <=> OwnsWay(n, w)

\* C8: after any sequence of add_node and remove_node the bounding box of a
\* way is the min/max latitude and longitude of its current node list, and is
\* undefined when the list is empty.
C8_BBoxConsistent ==
    \A w \in wayMade :
        IF wayNodes[w] = <<>> THEN wayBBox[w] = NoBBox
        ELSE wayBBox[w] = BBoxOf(wayNodes[w])

\* The nodes an area lists in any of its rings
AreaLists(a, n) == Contains(Flatten(<<areaOuter[a]>> \o areaInner[a]), n)

\* C9: right after an entity is removed from its collector no entity that is
\* still registered references it: no registered way or area lists a removed
\* node and no registered node has it as neighbor; no registered node lists a
\* removed way or area among its owners.
C9_RemovalCascades ==
    /\ (regLast.op = "remove_node" /\ regLast.ret = "True") =>
          /\ \A w \in wayReg : ~Contains(wayNodes[w], regLast.id)
          /\ \A a \in areaReg : ~AreaLists(a, regLast.id)
          /\ \A m \in nodeReg : ~IsNeighbor(m, regLast.id)
    /\ (regLast.op = "remove_way" /\ regLast.ret = "True") =>
          \A n \in nodeReg : ~OwnsWay(n, regLast.id)
    /\ (regLast.op = "remove_area" /\ regLast.ret = "True") =>
          \A n \in nodeReg : ~Contains(nodeAreas[n], regLast.id)

\* C10: after any sequence of Area construction, set_outer_border,
\* outer_border assignment, remove_outer_border, add_inner_border,
\* remove_inner_border and clear_inner_borders, an area has inner borders
\* only if its outer border is non-empty.
C10_InnerNeedsOuter ==
    \A a \in areaMade : areaInner[a] # <<>> => areaOuter[a] # <<>>

\* The merged line of a finished chaining: the feature stored under the
\* start id, which is the last feature of the returned collection
ChainMerged == chainOut[Len(chainOut)]

ChainStartLine == DictGet(BuildDictLine(<<>>, chainGiven, 1), chainStart)

\* The pool of the spec's example: A=[1,2,3], B=[3,4], C=[5,4], started at A
ChainExample ==
    /\ Len(chainGiven) = 3
    /\ chainGiven[1].ids = <<1, 2, 3>>
    /\ chainGiven[2].ids = <<3, 4>>
    /\ chainGiven[3].ids = <<5, 4>>
    /\ chainStart = chainGiven[1].id

\* C1: chaining started at line S yields a merged line whose id sequence
\* begins with S's ids in their original order; for the pool A=[1,2,3],
\* B=[3,4], C=[5,4] started at A the result is exactly one line with ids
\* [1,2,3,4,5] and no leftover lines.
C1_ChainFromStart ==
    chainPc = "done" =>
        /\ SubSeq(ChainMerged.ids, 1, Len(ChainStartLine.ids)) = ChainStartLine.ids
        /\ ChainExample =>
              (Len(chainOut) = 1 /\ ChainMerged.ids = <<1, 2, 3, 4, 5>>)

\* The positions of the input features that share type and key with feature i
SameKey(i) ==
    {j \in 1..Len(catInput) :
        catInput[j].type = catInput[i].type /\ catInput[j].key = catInput[i].key}

Keyed(i) == catInput[i].type \in {"LineString", "Polygon"} /\ catInput[i].key # None

OutOfKey(i) ==
    {k \in 1..Len(catOut) :
        catOut[k].type = catInput[i].type /\ catOut[k].key = catInput[i].key}

\* C2: with rewrite_duplicates=True, for every key carried by LineString (or
\* Polygon) features of the input, the output of concat_geojson_features
\* holds exactly one feature of that type and key, and it is the last one in
\* input order.
C2_OverwriteLaterWins ==
    (catPc = "done" /\ catRewrite) =>
        \A i \in 1..Len(catInput) :
            Keyed(i) =>
                \E k \in 1..Len(catOut) :
                    /\ OutOfKey(i) = {k}
                    /\ \A j \in SameKey(i) : j <= catOut[k].uid

\* C3: with rewrite_duplicates=False and adding_duplicates=True,
\* concat_geojson_features never reaches a point where it runs on without
\* making progress, and when it returns, every LineString and Polygon
\* feature of the input is in the output, colliding ones included.
C3_RekeyTerminatesKeepsBoth ==
    (~catRewrite /\ catAdding) =>
        /\ catPc \in {"done", "error"} \/ ENABLED <<NextConcat>>_vars
        /\ catPc = "done" =>
              \A i \in 1..Len(catInput) :
                  Keyed(i) => \E k \in 1..Len(catOut) : catOut[k].uid = i

\* Feature i is the first of the input with its canonical geometry
FirstOfWkt(i) ==
    \A j \in 1..(i - 1) : Wkt(ddInput[j].geom) # Wkt(ddInput[i].geom)

ResultUids == {ddResult[k].uid : k \in 1..Len(ddResult)}
FalseUids == {ddFalse[k].uid : k \in 1..Len(ddFalse)}

\* C4 (as stated): when remove_duplicate_features returns, the result holds
\* exactly one feature per distinct canonical geometry of the input, the
\* first feature in input order having that geometry.
C4_OnePerGeometry ==
    ddPc = "done" =>
        /\ Len(ddResult) = Cardinality({Wkt(ddInput[i].geom) : i \in 1..Len(ddInput)})
        /\ ResultUids = {i \in 1..Len(ddInput) : FirstOfWkt(i)}

\* C4 (amended): when remove_duplicate_features returns, the result holds,
\* in input order and numbered from 0, exactly the first feature of each
\* distinct canonical geometry that carries a boundingbox member; a first
\* feature without that member is in the rejected collection instead, and no
\* later feature of its geometry takes its place.
C4_OnePerGeometryWithBBox ==
    ddPc = "done" =>
        /\ ResultUids = {i \in 1..Len(ddInput) : FirstOfWkt(i) /\ ddInput[i].bbox}
        /\ FalseUids = {i \in 1..Len(ddInput) : FirstOfWkt(i) /\ ~ddInput[i].bbox}
        /\ Len(ddResult) = Cardinality(ResultUids)
        /\ \A k \in 1..Len(ddResult) :
              /\ ddResult[k].id = k - 1
              /\ ddResult[k].geom = ddInput[ddResult[k].uid].geom
              /\ \A l \in 1..(k - 1) : ddResult[l].uid < ddResult[k].uid

\* The call has returned for an input with two features of one canonical
\* geometry, and the first of them is the one in the result.
C4_Witness ==
    /\ ddPc = "done"
    /\ \E i, j \in 1..Len(ddInput) :
          /\ i < j
          /\ FirstOfWkt(i)
          /\ Wkt(ddInput[i].geom) = Wkt(ddInput[j].geom)
          /\ i \in ResultUids
          /\ j \notin ResultUids

\* C5: a feature whose geometry cannot be canonicalized never aborts
\* remove_duplicate_features; when the call returns, every such feature is
\* in the rejected collection written to false_features.geojson.
C5_UncanonicalizableIsolated ==
    /\ ddPc # "error"
    /\ ddPc = "done" =>
          /\ ddFile = Some(ddFalse)
          /\ \A i \in 1..Len(ddInput) : ShapeRaises(ddInput[i].geom) => i \in FalseUids


\* The ids and the coordinates of the Node objects a read border refers to
RdIds(refs) == [i \in 1..Len(refs) |-> rdHeap[refs[i]].id]
RdCoords(refs) == [i \in 1..Len(refs) |-> <<rdHeap[refs[i]].lon, rdHeap[refs[i]].lat>>]

\* read_geojson has returned for a file that write_geojson wrote
RoundTripDone == ioPc = "done" /\ srcGiven.nodes # {}

\* The store of the example: one standalone point, one line of two points
\* and one closed polygon of 3+1 points
RoundTripExample ==
    /\ srcGiven.nodes = {1, 2, 3, MaxIoNode}
    /\ srcGiven.ways = <<[k |-> 1, v |-> <<1, 2>>]>>
    /\ srcGiven.areas = <<[k |-> 1, v |-> [outer |-> <<1, 2, 3, 1>>, inner |-> <<>>]]>>

\* C11: a store written with write_geojson and read back with read_geojson
\* has the same number of points, lines and polygons as the store given, and
\* every line and every polygon ring has the same point ids and coordinates.
C11_RoundTrip ==
    RoundTripDone =>
        /\ Len(rdNodeReg) = Cardinality(srcGiven.nodes)
        /\ Len(rdWays) = Len(srcGiven.ways)
        /\ Len(rdAreas) = Len(srcGiven.areas)
        /\ \A i \in 1..Len(srcGiven.ways) :
              /\ DictHas(rdWays, srcGiven.ways[i].k)
              /\ RdIds(DictGet(rdWays, srcGiven.ways[i].k).nodes) = srcGiven.ways[i].v
              /\ RdCoords(DictGet(rdWays, srcGiven.ways[i].k).nodes) = Coords(srcGiven.ways[i].v)
        /\ \A i \in 1..Len(srcGiven.areas) :
              /\ DictHas(rdAreas, srcGiven.areas[i].k)
              /\ LET g == srcGiven.areas[i].v
                     a == DictGet(rdAreas, srcGiven.areas[i].k)
                 IN  /\ RdIds(a.outer) = g.outer
                     /\ RdCoords(a.outer) = Coords(g.outer)
                     /\ Len(a.inner) = Len(g.inner)
                     /\ \A j \in 1..Len(g.inner) :
                           j <= Len(a.inner) =>
                               /\ RdIds(a.inner[j]) = g.inner[j]
                               /\ RdCoords(a.inner[j]) = Coords(g.inner[j])

\* The Node objects a way or an area of the read store refers to
WayRefs(k) == RefSet(DictGet(rdWays, k).nodes)
AreaRefs(k) == RefSet(DictGet(rdAreas, k).outer \o Flatten(DictGet(rdAreas, k).inner))

\* C12: after read_geojson there is one Node object per point id, it is in
\* the node collector, and its way and area lists hold exactly the ways and
\* areas that refer to it.
C12_OneSharedPoint ==
    ioPc = "done" =>
        \A r \in 1..Len(rdHeap) :
            /\ \A q \in 1..Len(rdHeap) : rdHeap[q].id = rdHeap[r].id => q = r
            /\ DictHas(rdNodeReg, rdHeap[r].id)
            /\ DictGet(rdNodeReg, rdHeap[r].id) = r
            /\ \A i \in 1..Len(rdWays) :
                  Contains(rdHeap[r].ways, rdWays[i].k) <=> r \in WayRefs(rdWays[i].k)
            /\ \A i \in 1..Len(rdAreas) :
                  Contains(rdHeap[r].areas, rdAreas[i].k) <=> r \in AreaRefs(rdAreas[i].k)

\* The coordinate count of a feature differs from its id count (the outer
\* ring for a Polygon)
CountsDiffer(f) ==
    /\ f.type \in {"LineString", "Polygon"}
    /\ Len(f.coords[1]) # Len(f.ids[1])

\* C13: read_geojson raises no error on a feature whose coordinate count and
\* id count differ, and puts no way and no area of such a feature into the
\* collectors.
C13_MismatchSkipped ==
    /\ ioFile # <<>> => ioPc # "error"
    /\ \A i \in 1..(ioIdx - 1) :
          i <= Len(ioFile) /\ CountsDiffer(ioFile[i]) =>
              /\ ioFile[i].type = "LineString" => ~DictHas(rdWays, ioFile[i].id)
              /\ ioFile[i].type = "Polygon" => ~DictHas(rdAreas, ioFile[i].id)

\* A border as the file must show it: closed by its first node when open
ClosedRing(r) == IF r[1] = r[Len(r)] THEN r ELSE r \o <<r[1]>>

\* The rings the file must show for the borders given: the outer border,
\* then the inner borders of at least 3 nodes, in order
ExpectedRings(g) ==
    <<ClosedRing(g.outer)>>
        \o [j \in 1..Len(SelectSeq(g.inner, LAMBDA r : Len(r) >= 3)) |->
               ClosedRing(SelectSeq(g.inner, LAMBDA r : Len(r) >= 3)[j])]

PolygonFeatures == SelectSeq(ioFile, LAMBDA f : f.type = "Polygon")

\* write_geojson has written the file
Written == ioPc \in {"read", "done"} /\ srcGiven.nodes # {}

\* C14: every ring of every Polygon feature written is closed and has as
\* many ids as coordinates; an area whose outer border has fewer than 3 nodes
\* is not written; of the others the outer border comes first, then the
\* inner borders of at least 3 nodes in order, each closed by its first node
\* when it was open.
C14_WrittenRingsClosed ==
    Written =>
        /\ \A i \in 1..Len(PolygonFeatures) :
              \A j \in 1..Len(PolygonFeatures[i].ids) :
                 LET ids == PolygonFeatures[i].ids[j]
                 IN  /\ Len(ids) >= 3
                     /\ ids[1] = ids[Len(ids)]
                     /\ Len(PolygonFeatures[i].coords[j]) = Len(ids)
                     /\ PolygonFeatures[i].coords[j] = Coords(ids)
        /\ \A i \in 1..Len(srcGiven.areas) :
              LET g == srcGiven.areas[i]
                  fs == SelectSeq(PolygonFeatures, LAMBDA f : f.id = g.k)
              IN  IF Len(g.v.outer) < 3 THEN fs = <<>>
                  ELSE Len(fs) = 1 /\ fs[1].ids = ExpectedRings(g.v)

\* An area with an open outer border, a short inner border and an open
\* inner border has been written as two closed rings.
C14_Witness ==
    /\ Written
    /\ \E i \in 1..Len(srcGiven.areas) :
          /\ srcGiven.areas[i].v.outer = <<1, 2, 3>>
          /\ srcGiven.areas[i].v.inner = <<<<1, 2>>, <<1, 2, 3>>>>
          /\ \E k \in 1..Len(ioFile) :
                /\ ioFile[k].type = "Polygon"
                /\ ioFile[k].ids = <<<<1, 2, 3, 1>>, <<1, 2, 3, 1>>>>

(***************************************************************************)
(* The pruning passes                                                      *)
(***************************************************************************)
Uids(fs) == {fs[i].uid : i \in 1..Len(fs)}

OfType(fs, type) == {i \in 1..Len(fs) : fs[i].type = type}

DistinctIds(fs, type) ==
    \A i, j \in OfType(fs, type) : fs[i].id = fs[j].id => i = j

\* The lines of the input that no polygon of the input covers without containing
UncoveredLines ==
    {l \in OfType(prInput, "LineString") :
        ~\E p \in OfType(prInput, "Polygon") :
            prCovers[<<prInput[p].g, prInput[l].g>>] /\ ~prContains[<<prInput[p].g, prInput[l].g>>]}

\* C15: remove_duplicate_line returns every polygon of the input and exactly
\* those lines that no polygon of the input covers without containing.
C15_PolygonsAndUncoveredLines ==
    prPc = "done" /\ prInput \in PrInputs(LineKinds) =>
        Uids(prOut) = OfType(prInput, "Polygon") \cup UncoveredLines

\* The single-ring polygons that an inner ring of some polygon of the input
\* covers without containing
AbsorbedPolygons ==
    {k \in OfType(prInput, "Polygon") :
        /\ prInput[k].inner = <<>>
        /\ \E i \in OfType(prInput, "Polygon") : \E j \in 1..Len(prInput[i].inner) :
              /\ prCovers[<<prInput[i].inner[j], prInput[k].g>>]
              /\ ~prContains[<<prInput[i].inner[j], prInput[k].g>>]}

\* C16: remove_feature_in_inner_boards keeps every feature that is not a
\* polygon and every polygon with inner rings, and drops exactly the
\* single-ring polygons that an inner ring of some polygon of the input covers
\* without containing.
C16_AbsorbedPolygonsDropped ==
    prPc = "done" /\ prInput \in PrInputs(InnerKinds) =>
        Uids(prOut) = (1..Len(prInput)) \ AbsorbedPolygons

(***************************************************************************)
(* The grid split                                                          *)
(***************************************************************************)
\* C17: for a rectangle whose width and height are multiples of the cell
\* size c, split_to_grid returns (W/c)*(H/c) polygons, each of area c*c,
\* with the ids 1..n.
C17_GridOfRectangle ==
    (gridPc = "done" /\ gridRect.w % gridCell = 0 /\ gridRect.h % gridCell = 0) =>
        /\ Len(gridOut) = (gridRect.w \div gridCell) * (gridRect.h \div gridCell)
        /\ \A i \in 1..Len(gridOut) :
              gridOut[i].id = i /\ BoxArea(gridOut[i].box) = gridCell * gridCell

\* The 2x1 rectangle (lon 0..2, lat 0..1) split with cell size 1
C17_Witness ==
    /\ gridPc = "done"
    /\ gridRect = [x |-> 0, y |-> 0, w |-> 2, h |-> 1]
    /\ gridCell = 1
    /\ Len(gridOut) = 2
    /\ \A i \in 1..2 : BoxArea(gridOut[i].box) = 1

(***************************************************************************)
(* Coordinate validation                                                   *)
(***************************************************************************)
\* A latitude outside [-90, 90] or a longitude outside [-180, 180] is given
OutOfRange(lat, lon) ==
    \/ ~IsNone(lat) /\ (Val(lat) < -90 \/ Val(lat) > 90)
    \/ ~IsNone(lon) /\ (Val(lon) < -180 \/ Val(lon) > 180)

InRange(lat, lon) ==
    /\ ~IsNone(lat) /\ -90 <= Val(lat) /\ Val(lat) <= 90
    /\ ~IsNone(lon) /\ -180 <= Val(lon) /\ Val(lon) <= 180

\* C18: construction and coordinate assignment fail with the validation
\* error for every latitude outside [-90, 90] or longitude outside
\* [-180, 180], a failed assignment leaves the coordinates as they were, and
\* both succeed for every pair in range, the boundary values included.
C18_CoordinatesValidated ==
    ndLast.op \in {"init", "set"} =>
        /\ OutOfRange(ndLast.lat, ndLast.lon) =>
              /\ ndLast.result = "ValueError"
              /\ ndLast.op = "set" => ndLat = ndLast.oldLat /\ ndLon = ndLast.oldLon
        /\ InRange(ndLast.lat, ndLast.lon) =>
              ndLast.result = "ok" /\ ndLat = ndLast.lat /\ ndLon = ndLast.lon

(***************************************************************************)
(* The collectors                                                          *)
(***************************************************************************)
\* The registered objects whose bounding box meets the rectangle q
Meeting(reg, q) ==
    {reg[i].v : i \in {i \in 1..Len(reg) :
        LET bb == EntityBBox(lcObjs[reg[i].v])
        IN  /\ ~IsNone(bb.min_lat)
            /\ Val(bb.min_lat) <= q.max_lat /\ Val(bb.max_lat) >= q.min_lat
            /\ Val(bb.min_lon) <= q.max_lon /\ Val(bb.max_lon) >= q.min_lon}}

Returned == {lcLast.val[i].v : i \in 1..Len(lcLast.val)}

\* C19: for every content of a collector and every rectangle q, the
\* bounding-box query returns exactly the registered entities with
\* min_lat <= q.max_lat, max_lat >= q.min_lat, min_lon <= q.max_lon and
\* max_lon >= q.min_lon.
C19_QueryReturnsOverlapping ==
    /\ lcLast.op = "get_ways_by_bounding_box" =>
          lcLast.err = "None" /\ Returned = Meeting(lcWays, lcLast.q)
    /\ lcLast.op = "get_areas_by_bounding_box" =>
          lcLast.err = "None" /\ Returned = Meeting(lcAreas, lcLast.q)

\* C20: inserting a way whose id is present leaves the size of the way
\* collector unchanged and maps the id to the inserted way; the size is
\* always the number of ids inserted and not removed since.
C20_OverwriteKeepsSize ==
    /\ Len(lcWays) = Cardinality(lcLive)
    /\ (lcLast.op = "add_way" /\ lcLast.err = "None") =>
          /\ DictGet(lcWays, lcObjs[lcLast.obj].id) = lcLast.obj
          /\ lcLast.old # 0 => Len(lcWays) = lcLast.size

\* A way was inserted under an id that mapped to another way with other nodes
C20_Witness ==
    /\ lcLast.op = "add_way" /\ lcLast.err = "None"
    /\ lcLast.old # 0 /\ lcLast.old # lcLast.obj
    /\ lcObjs[lcLast.old].nodes # lcObjs[lcLast.obj].nodes
    /\ Len(lcWays) = 1

\* A LineString or Polygon feature of the input has no key tag
KeyMissing ==
    \E i \in 1..Len(catInput) :
        catInput[i].type \in {"LineString", "Polygon"} /\ catInput[i].key = None

\* C21: when a LineString feature lacks OSM_way_id or a Polygon feature
\* lacks OSM_area_id, concat_geojson_features fails with an error under every
\* collision policy: it returns no collection, and it never reaches a point
\* where it runs on without failing.
C21_MissingKeyFails ==
    KeyMissing =>
        /\ catPc # "done"
        /\ catPc = "error" \/ ENABLED <<NextConcat>>_vars

(***************************************************************************)
(* The fast read                                                           *)
(***************************************************************************)
\* C22: after fast_read_json the node collector is empty and every
\* LineString and Polygon feature of the file is in its collector as an
\* entity without nodes, whose geometry object is returned by the entity's
\* getter and whose bounding box is that of the geometry object.
C22_FastReadKeepsGeometry ==
    frPc = "done" =>
        /\ frNodes = <<>>
        /\ \A i \in 1..Len(frFile) :
              /\ frFile[i].type = "LineString" =>
                    /\ DictHas(frWays, frFile[i].id)
                    /\ LET w == DictGet(frWays, frFile[i].id)
                       IN  /\ w.nodes = <<>>
                           /\ Way_shapely_line(w) = [err |-> "None", val |-> Some(frFile[i].coords)]
                           /\ w.bbox = GeomBounds(frFile[i].coords)
              /\ frFile[i].type = "Polygon" =>
                    /\ DictHas(frAreas, frFile[i].id)
                    /\ LET a == DictGet(frAreas, frFile[i].id)
                       IN  /\ a.nodes = <<>>
                           /\ Area_shapely_polygon(a) = [err |-> "None", val |-> Some(frFile[i].coords)]
                           /\ a.bbox = GeomBounds(frFile[i].coords)

(***************************************************************************)
(* The chaining loop                                                       *)
(***************************************************************************)
\* C23: a merge appends the points of the matching line in their order,
\* without the shared point, when the line's first id is the chain's last
\* id, and the reversed line otherwise; the id of the line plays no part.
C23_UniformAppend ==
    [][(chainPc = "scan" /\ dictLine' # dictLine /\ chainPc' = "scan") =>
         LET f == FirstMatch(dictLine, resultLineIds)
         IN  resultLineIds' = resultLineIds \o
                Tail1(IF HeadMatch(resultLineIds, f) THEN f.ids ELSE Reverse(f.ids))]_vars

\* The features of the input that are still in the pool
Leftover == {dictLine[i].v : i \in {i \in 1..Len(dictLine) : dictLine[i].k # chainStart}}

\* When the chaining has returned: no line left in the pool starts or ends
\* with the chain's last id, and the result is the lines left in the pool, as
\* they were given, and the merged line
ChainStopped ==
    chainPc = "done" =>
        /\ \A f \in Leftover :
              ~HeadMatch(resultLineIds, f) /\ ~TailMatch(resultLineIds, f)
        /\ Leftover \subseteq {chainGiven[i] : i \in 1..Len(chainGiven)}
        /\ Leftover \subseteq {chainInput[i] : i \in 1..Len(chainInput)}
        /\ {chainOut[i] : i \in 1..Len(chainOut)} =
              Leftover \cup {MergedFeature(chainStart, resultLine, resultLineIds)}
        /\ Len(chainOut) = Cardinality(Leftover) + 1

\* C24: the chaining ends for every pool, and when it returns no line left
\* in the pool starts or ends with the chain's last id and the lines left
\* are returned as they were given, with the merged line.
C24_ChainTerminates ==
    /\ <>(chainPc \in {"done", "error"})
    /\ []ChainStopped

\* A chaining that merged a line and left another in the pool
C24_Witness ==
    /\ chainPc = "done"
    /\ Len(chainOut) >= 2
    /\ Len(resultLineIds) > Len(ChainStartLine.ids)

(***************************************************************************)
(* Neighbor ways                                                           *)
(***************************************************************************)
\* The nodes of way w that way v has too
SharedNodes(w, v) ==
    {n \in Nodes : Contains(nwWayNodes[w], n) /\ Contains(nwWayNodes[v], n)}

\* C25: after set_neighbor_way on a way, its neighbor map has an entry for
\* exactly the other ways that share a node with it, and the entry of a way
\* lists every node the two ways share.
C25_AllSharedNodes ==
    nwLast \in NwWays =>
        LET map == nwMap[nwLast]
        IN  /\ {map[i].k : i \in 1..Len(map)} =
                  {v \in NwWays \ {nwLast} : SharedNodes(nwLast, v) # {}}
            /\ \A i \in 1..Len(map) :
                  {map[i].v[j] : j \in 1..Len(map[i].v)} = SharedNodes(nwLast, map[i].k)

(***************************************************************************)
(* Construction of ways and areas                                          *)
(***************************************************************************)
\* C26: right after a Way or an Area is constructed from a non-empty node
\* list its bounding box is set and every node of the list has the entity
\* among its owners (Node.ways, Node.areas); constructed from an empty list
\* its bounding box is undefined and no node lists it.
C26_ConstructionRegisters ==
    /\ wayLast.op = "init" =>
          LET w == wayLast.w
          IN  IF wayNodes[w] # <<>>
              THEN /\ wayBBox[w] = BBoxOf(wayNodes[w])
                   /\ \A i \in 1..Len(wayNodes[w]) : OwnsWay(wayNodes[w][i], w)
              ELSE /\ wayBBox[w] = NoBBox
                   /\ \A n \in Nodes : ~OwnsWay(n, w)
    /\ (areaLast.op = "init" /\ areaLast.ret = "None") =>
          LET a == areaLast.a
              ns == Flatten(<<areaOuter[a]>> \o areaInner[a])
          IN  IF ns # <<>>
              THEN /\ areaBBox[a] = BBoxOf(ns)
                   /\ \A i \in 1..Len(ns) : Contains(nodeAreas[ns[i]], a)
              ELSE /\ areaBBox[a] = NoBBox
                   /\ \A n \in Nodes : ~Contains(nodeAreas[n], a)

(***************************************************************************)
(* Isolated nodes                                                          *)
(***************************************************************************)
\* C28: clear_isolated_nodes removes the isolated nodes and keeps all others:
\* with both flags false the registry loses exactly the nodes with neither
\* neighbors nor ways, with from_isolated_neighbors alone the nodes without
\* neighbors, with from_isolated_ways alone the nodes without ways.
C28_IsolatedRemoved ==
    ciLast.op = "clear_isolated_nodes" =>
        /\ (~ciLast.neighbors /\ ~ciLast.ways) =>
              ciNodes = {n \in ciBefore : ciNeighbors[n] # <<>> \/ ciWays[n] # <<>>}
        /\ (ciLast.neighbors /\ ~ciLast.ways) =>
              ciNodes = {n \in ciBefore : ciNeighbors[n] # <<>>}
        /\ (~ciLast.neighbors /\ ciLast.ways) =>
              ciNodes = {n \in ciBefore : ciWays[n] # <<>>}

(***************************************************************************)
(* Node.clear_neighbors                                                    *)
(***************************************************************************)
\* C29: right after clear_neighbors on a node, whatever the number of its
\* neighbors was, the node has no neighbors and no other node lists it as a
\* neighbor.
C29_ClearNeighborsEmpties ==
    nbLast.op = "clear_neighbors" =>
        /\ neighbors[nbLast.a] = <<>>
        /\ \A n \in Nodes : ~IsNeighbor(n, nbLast.a)

(***************************************************************************)
(* The bounding box of an area                                             *)
(***************************************************************************)
\* C27: after any sequence of set_outer_border, remove_outer_border,
\* add_inner_border, remove_inner_border and clear_inner_borders the bounding
\* box of an area is the min/max latitude and longitude over the nodes of all
\* its current rings, and is undefined only when the area has no nodes.
C27_AreaBBoxConsistent ==
    \A a \in areaMade :
        LET ns == Flatten(<<areaOuter[a]>> \o areaInner[a])
        IN  IF ns = <<>> THEN areaBBox[a] = NoBBox ELSE areaBBox[a] = BBoxOf(ns)

(***************************************************************************)
(* split_to_grid and the properties of its input                           *)
(***************************************************************************)
\* C30: when split_to_grid has returned, the properties of the input feature
\* are what they were at the call, the id array included, and every cell has
\* the properties of the input without the id array.
C30_InputUnmodified ==
    gridPc = "done" =>
        /\ gridProps = gridProps0
        /\ \A i \in 1..Len(gridOut) :
              gridOut[i].properties = DictDel(gridProps0, "OSM_id_nodes")

====
